---- MODULE Spec2Model ----
(***************************************************************************)
(* CLox: a single-pass compiler, a bytecode VM and a mark-sweep collector. *)
(*                                                                         *)
(* The C program keeps all of its state in the global `vm`, in the heap    *)
(* objects linked from vm.objects and, while compile() runs, in the        *)
(* parser and the chain of Compiler structs.  The model threads one record *)
(* through the translated C functions, the "world" w:                      *)
(*    w.vm      the fields of struct VM                                    *)
(*    w.heap    the malloc'ed objects, by address (1, 2, ...); a freed     *)
(*              object keeps its address and is flagged freed              *)
(*    w.cc      the chain of Compiler structs (`current` is the last)      *)
(*    w.cls     the chain of ClassCompiler structs                         *)
(*    w.parser  the parser and the token stream of the scanner             *)
(*    w.out     the lines written to stdout                                *)
(*    w.errs    the messages written to stderr                             *)
(*    w.gclog   what each run of the collector saw and did                 *)
(*    w.stress  whether the build defines DEBUG_STRESS_GC                  *)
(*    w.clock   what clock() returns, in seconds                           *)
(*    w.ub      TRUE once the C program has run into undefined behaviour   *)
(*    w.ret     the value returned by the C function last translated       *)
(* C arrays are 0-based and TLA+ sequences 1-based: code[i] is code[i+1].  *)
(***************************************************************************)
EXTENDS Integers, Sequences, FiniteSets, TLC

VARIABLES vm, heap, out, errs, pc, result, stress, runs, session, prog, gclog, compiling

vars == <<vm, heap, out, errs, pc, result, stress, runs, session, prog, gclog, compiling>>

(***************************************************************************)
(* The functions of the compiler and of the VM that call one another in    *)
(* cycles, or from many places, are entered through Call: f_(x) is f(x).   *)
(***************************************************************************)
RECURSIVE Call(_, _)

XorBits_(a, b, n) == Call("XorBits", <<a, b, n>>)

HashLoop_(key, i, h) == Call("HashLoop", <<key, i, h>>)

Roots_(w) == Call("Roots", <<w>>)

References_(w, o) == Call("References", <<w, o>>)

ReachableFrom_(w, set) == Call("ReachableFrom", <<w, set>>)

find_entry_loop_(entries, capacity, key, index, tombstone) == Call("find_entry_loop", <<entries, capacity, key, index, tombstone>>)

mark_roots_(w) == Call("mark_roots", <<w>>)

blacken_object_(w, object) == Call("blacken_object", <<w, object>>)

trace_references_(w) == Call("trace_references", <<w>>)

table_del_(w, tref, key) == Call("table_del", <<w, tref, key>>)

table_remove_white_(w, tref) == Call("table_remove_white", <<w, tref>>)

SumBytes_(w, list, lo, hi) == Call("SumBytes", <<w, list, lo, hi>>)

sweep_(w) == Call("sweep", <<w>>)

collect_garbage_(w) == Call("collect_garbage", <<w>>)

reallocate_(w, old_size, new_size) == Call("reallocate", <<w, old_size, new_size>>)

adjust_capacity_loop_(w, old, entries, capacity, i, count) == Call("adjust_capacity_loop", <<w, old, entries, capacity, i, count>>)

adjust_capacity_(w, tref, capacity) == Call("adjust_capacity", <<w, tref, capacity>>)

table_get_(w, tref, key) == Call("table_get", <<w, tref, key>>)

table_set_(w, tref, key, value) == Call("table_set", <<w, tref, key, value>>)

table_add_all_loop_(w, from, to, i) == Call("table_add_all_loop", <<w, from, to, i>>)

table_find_string_loop_(w, chars, length, hash, index) == Call("table_find_string_loop", <<w, chars, length, hash, index>>)

allocate_string_(w, chars, length, hash) == Call("allocate_string", <<w, chars, length, hash>>)

new_closure_(w, function) == Call("new_closure", <<w, function>>)

write_chunk_(w, function, byte) == Call("write_chunk", <<w, function, byte>>)

write_value_array_(w, function, value) == Call("write_value_array", <<w, function, value>>)

add_constant_(w, function, value) == Call("add_constant", <<w, function, value>>)

advance_loop_(w) == Call("advance_loop", <<w>>)

emit_loop_(w, loop_start) == Call("emit_loop", <<w, loop_start>>)

emit_constant_(w, value) == Call("emit_constant", <<w, value>>)

patch_jump_(w, offset) == Call("patch_jump", <<w, offset>>)

init_compiler_(w, type) == Call("init_compiler", <<w, type>>)

end_compiler_(w) == Call("end_compiler", <<w>>)

end_scope_loop_(w) == Call("end_scope_loop", <<w>>)

identifier_constant_(w, name) == Call("identifier_constant", <<w, name>>)

resolve_local_loop_(w, ci, name, i) == Call("resolve_local_loop", <<w, ci, name, i>>)

add_upvalue_loop_(upvalues, index, is_local, i) == Call("add_upvalue_loop", <<upvalues, index, is_local, i>>)

add_upvalue_(w, ci, index, is_local) == Call("add_upvalue", <<w, ci, index, is_local>>)

resolve_upvalue_(w, ci, name) == Call("resolve_upvalue", <<w, ci, name>>)

declare_variable_loop_(w, name, i) == Call("declare_variable_loop", <<w, name, i>>)

parse_variable_(w, error_message) == Call("parse_variable", <<w, error_message>>)

named_variable_(w, name, can_assign) == Call("named_variable", <<w, name, can_assign>>)

argument_list_loop_(w, arg_count) == Call("argument_list_loop", <<w, arg_count>>)

and__(w, can_assign) == Call("and_", <<w, can_assign>>)

or__(w, can_assign) == Call("or_", <<w, can_assign>>)

block_loop_(w) == Call("block_loop", <<w>>)

function_params_(w) == Call("function_params", <<w>>)

emit_upvalues_(w, upvalues, i) == Call("emit_upvalues", <<w, upvalues, i>>)

function_(w, type) == Call("function", <<w, type>>)

function_head_(w) == Call("function_head", <<w>>)

compile_head_(w, source) == Call("compile_head", <<w, source>>)

TablesBuilt_(w, n) == Call("TablesBuilt", <<w, n>>)

copy_string_(w, chars, length) == Call("copy_string", <<w, chars, length>>)

if_tail_(w, then_jump) == Call("if_tail", <<w, then_jump>>)

while_tail_(w, loop_start, exit_jump) == Call("while_tail", <<w, loop_start, exit_jump>>)

method_(w) == Call("method", <<w>>)

var_declaration_(w) == Call("var_declaration", <<w>>)

fun_declaration_(w) == Call("fun_declaration", <<w>>)

class_methods_(w) == Call("class_methods", <<w>>)

class_superclass_(w, class_name) == Call("class_superclass", <<w, class_name>>)

class_body_(w, class_name) == Call("class_body", <<w, class_name>>)

class_named_(w, class_name) == Call("class_named", <<w, class_name>>)

binary_(w, can_assign) == Call("binary", <<w, can_assign>>)

call_expr_(w, can_assign) == Call("call_expr", <<w, can_assign>>)

strtod_loop_(chars, i, value) == Call("strtod_loop", <<chars, i, value>>)

string_(w, can_assign) == Call("string", <<w, can_assign>>)

super__(w, can_assign) == Call("super_", <<w, can_assign>>)

ParseFn_(w, fn, can_assign) == Call("ParseFn", <<w, fn, can_assign>>)

parse_precedence_loop_(w, precedence, can_assign) == Call("parse_precedence_loop", <<w, precedence, can_assign>>)

parse_precedence_(w, precedence) == Call("parse_precedence", <<w, precedence>>)

return_statement_(w) == Call("return_statement", <<w>>)

if_statement_(w) == Call("if_statement", <<w>>)

while_statement_(w) == Call("while_statement", <<w>>)

for_initializer_(w) == Call("for_initializer", <<w>>)

for_condition_(w) == Call("for_condition", <<w>>)

for_increment_(w, loop_start) == Call("for_increment", <<w, loop_start>>)

for_statement_(w) == Call("for_statement", <<w>>)

synchronize_loop_(w) == Call("synchronize_loop", <<w>>)

statement_(w) == Call("statement", <<w>>)

declaration_(w) == Call("declaration", <<w>>)

compile_loop_(w) == Call("compile_loop", <<w>>)

compile_(w, source) == Call("compile", <<w, source>>)

Digits_(n) == Call("Digits", <<n>>)

Log10_(n) == Call("Log10", <<n>>)

Pow10_(k) == Call("Pow10", <<k>>)

StripZeros_(digits) == Call("StripZeros", <<digits>>)

FormatG_(n) == Call("FormatG", <<n>>)

print_object_(w, value) == Call("print_object", <<w, value>>)

runtime_error_loop_(w, i) == Call("runtime_error_loop", <<w, i>>)

define_native_(w, name, fn) == Call("define_native", <<w, name, fn>>)

call_(w, closure, arg_count) == Call("call", <<w, closure, arg_count>>)

call_value_(w, callee, arg_count) == Call("call_value", <<w, callee, arg_count>>)

invoke_from_class_(w, klass, name, arg_count) == Call("invoke_from_class", <<w, klass, name, arg_count>>)

invoke_(w, name, arg_count) == Call("invoke", <<w, name, arg_count>>)

bind_method_(w, klass, name) == Call("bind_method", <<w, klass, name>>)

capture_upvalue_loop_(w, local, i) == Call("capture_upvalue_loop", <<w, local, i>>)

capture_upvalue_(w, local) == Call("capture_upvalue", <<w, local>>)

close_upvalues_(w, last) == Call("close_upvalues", <<w, last>>)

define_method_(w, name) == Call("define_method", <<w, name>>)

concatenate_(w) == Call("concatenate", <<w>>)

READ_BYTE_(w) == Call("READ_BYTE", <<w>>)

READ_STRING_(w) == Call("READ_STRING", <<w>>)

BINARY_OP_(w, op) == Call("BINARY_OP", <<w, op>>)

closure_upvalues_loop_(w, closure, i) == Call("closure_upvalues_loop", <<w, closure, i>>)

op_add_(w) == Call("op_add", <<w>>)

op_modulo_(w) == Call("op_modulo", <<w>>)

op_return_(w) == Call("op_return", <<w>>)

op_call_(w) == Call("op_call", <<w>>)

op_set_global_(w) == Call("op_set_global", <<w>>)

op_get_global_(w) == Call("op_get_global", <<w>>)

op_closure_(w) == Call("op_closure", <<w>>)

op_set_property_(w) == Call("op_set_property", <<w>>)

op_get_property_(w) == Call("op_get_property", <<w>>)

op_get_super_(w) == Call("op_get_super", <<w>>)

op_invoke_(w) == Call("op_invoke", <<w>>)

op_inherit_(w) == Call("op_inherit", <<w>>)

op_super_invoke_(w) == Call("op_super_invoke", <<w>>)

run_step_(w) == Call("run_step", <<w>>)

init_vm_(w) == Call("init_vm", <<w>>)

interpret_(w, source) == Call("interpret", <<w, source>>)

(***************************************************************************)
(* Bounds of the model.                                                    *)
(***************************************************************************)
MaxRuns == 2

(***************************************************************************)
(* Program constants.                                                      *)
(***************************************************************************)
FRAMES_MAX == 64
UINT8_COUNT == 256
UINT8_MAX == 255
UINT16_MAX == 65535
STACK_MAX == FRAMES_MAX * UINT8_COUNT
GC_HEAP_GROW_FACTOR == 2
INITIAL_NEXT_GC == 1024 * 1024

OP_CALL == 0
OP_INVOKE == 1
OP_SUPER_INVOKE == 2
OP_RETURN == 3
OP_POP == 4
OP_PRINT == 5
OP_LOOP == 6
OP_JUMP == 7
OP_JUMP_IF_FALSE == 8
OP_INHERIT == 9
OP_CLASS == 10
OP_METHOD == 11
OP_CLOSURE == 12
OP_CONSTANT == 13
OP_SET_LOCAL == 14
OP_SET_GLOBAL == 15
OP_SET_UPVALUE == 16
OP_SET_PROPERTY == 17
OP_GET_LOCAL == 18
OP_GET_GLOBAL == 19
OP_GET_UPVALUE == 20
OP_GET_PROPERTY == 21
OP_GET_SUPER == 22
OP_CLOSE_UPVALUE == 23
OP_DEFINE_GLOBAL == 24
OP_NIL == 25
OP_TRUE == 26
OP_FALSE == 27
OP_NOT == 28
OP_ADD == 29
OP_NEGATE == 30
OP_SUBTRACT == 31
OP_MULTIPLY == 32
OP_MODULO == 33
OP_DIVIDE == 34
OP_EQUAL == 35
OP_LESS == 36
OP_GREATER == 37

(* sizeof() on the 64-bit build the repository is developed on. *)
SIZEOF_VALUE == 16
SIZEOF_ENTRY == 24
SIZEOF_POINTER == 8
SIZEOF_INT == 4
SIZEOF_OBJECT_STRING == 40
SIZEOF_OBJECT_UPVALUE == 48
SIZEOF_OBJECT_FUNCTION == 72
SIZEOF_OBJECT_CLOSURE == 40
SIZEOF_OBJECT_CLASS == 40
SIZEOF_OBJECT_INSTANCE == 40
SIZEOF_OBJECT_BOUND_METHOD == 40
SIZEOF_OBJECT_NATIVE == 24

(***************************************************************************)
(* Value: the tagged union of value.h.  A bool is held as 0 or 1, an       *)
(* object as its address.  Numbers are the integer-valued doubles.         *)
(***************************************************************************)
NIL_VALUE == [t |-> "nil", v |-> 0]
BOOL_VALUE(b) == [t |-> "bool", v |-> IF b THEN 1 ELSE 0]
NUMBER_VALUE(n) == [t |-> "number", v |-> n]
OBJECT_VALUE(o) == [t |-> "object", v |-> o]

IS_NIL(value) == value.t = "nil"
IS_BOOL(value) == value.t = "bool"
IS_NUMBER(value) == value.t = "number"
IS_OBJECT(value) == value.t = "object"
AS_BOOL(value) == value.v = 1
AS_NUMBER(value) == value.v
AS_OBJECT(value) == value.v

NULL == 0

values_equal(a, b) ==
    IF a.t # b.t THEN FALSE
    ELSE CASE a.t = "nil" -> TRUE
           [] a.t = "bool" -> AS_BOOL(a) = AS_BOOL(b)
           [] a.t = "number" -> AS_NUMBER(a) = AS_NUMBER(b)
           [] a.t = "object" -> AS_OBJECT(a) = AS_OBJECT(b)
           [] OTHER -> FALSE

is_falsey(value) == IS_NIL(value) \/ (IS_BOOL(value) /\ ~AS_BOOL(value))

(***************************************************************************)
(* Helpers on sequences and on the world.                                  *)
(***************************************************************************)
At(seq, i) == seq[i + 1]

SetAt(seq, i, x) == [seq EXCEPT ![i + 1] = x]

Min(a, b) == IF a < b THEN a ELSE b

Undefined(w) == [w EXCEPT !.ub = TRUE]

Ret(w, r) == [w EXCEPT !.ret = r]

(* A dereference of the object at address o: reading a freed object (or    *)
(* NULL) is undefined behaviour.                                           *)
Valid(w, o) == o # NULL /\ o \in DOMAIN w.heap /\ ~w.heap[o].freed

is_object_type(w, value, type) ==
    IS_OBJECT(value) /\ Valid(w, AS_OBJECT(value)) /\ w.heap[AS_OBJECT(value)].type = type

IS_CLASS(w, value) == is_object_type(w, value, "OBJECT_CLASS")
IS_STRING(w, value) == is_object_type(w, value, "OBJECT_STRING")
IS_INSTANCE(w, value) == is_object_type(w, value, "OBJECT_INSTANCE")

(* A use of an object value looks at the object's type tag. *)
Dangling(w, value) == IS_OBJECT(value) /\ ~Valid(w, AS_OBJECT(value))

(***************************************************************************)
(* The value stack.  vm.stack is a static array, zeroed at program start   *)
(* (a zeroed Value is nil, VALUE_NIL being 0).  It is held as the slots    *)
(* written so far; a popped slot keeps its value, as in C.  vm.stack_top   *)
(* is the offset of the pointer from vm.stack.  interpret() moves          *)
(* stack_top below vm.stack (see interpret): the slots below the array lie *)
(* in the unused tail of vm.frames, which struct VM places right before    *)
(* the stack, and behave as further slots.                                 *)
(***************************************************************************)
StackRead(w, slot) == IF slot \in DOMAIN w.vm.stack THEN w.vm.stack[slot] ELSE NIL_VALUE

StackWrite(w, slot, value) == [w EXCEPT !.vm.stack = (slot :> value) @@ w.vm.stack]

stack_push(w, value) ==
    LET w1 == StackWrite(w, w.vm.stack_top, value)
    IN  CASE w1.ub -> w1
          [] OTHER ->  [w1 EXCEPT !.vm.stack_top = w.vm.stack_top + 1]

(* stack_pop: the world after the pop; the popped value is PoppedValue(w). *)
stack_pop(w) == [w EXCEPT !.vm.stack_top = w.vm.stack_top - 1]

PoppedValue(w) == StackRead(w, w.vm.stack_top - 1)

peek(w, distance) == StackRead(w, w.vm.stack_top - 1 - distance)

(* reset_stack without `vm.frame_count = 0`. *)
reset_stack_keeps_frames(w) ==
    [w EXCEPT !.vm.open_upvalues = <<>>,
              !.vm.stack_top = 0]

reset_stack(w) ==
    [w EXCEPT !.vm.open_upvalues = <<>>,
              !.vm.stack_top = 0,
              !.vm.frame_count = 0]

(***************************************************************************)
(* hash_string: FNV-1a on uint32_t.  A hash is held as its two 16-bit      *)
(* halves <<hi, lo>>, so that no product leaves the range of the checker's *)
(* integers; 16777619 = 2^24 + 403.                                        *)
(***************************************************************************)
RECURSIVE XorBits(_, _, _)
XorBits(a, b, n) ==
    IF n = 0 THEN 0
    ELSE (((a % 2) + (b % 2)) % 2) + 2 * XorBits(a \div 2, b \div 2, n - 1)

HashStep(h, c) ==
    LET lo1 == (h[2] - (h[2] % 256)) + XorBits_(h[2] % 256, c, 8)
        p   == lo1 * 403
    IN  << (h[1] * 403 + (p \div 65536) + (lo1 % 256) * 256) % 65536, p % 65536 >>

RECURSIVE HashLoop(_, _, _)
HashLoop(key, i, h) ==
    IF i >= Len(key) THEN h ELSE HashLoop(key, i + 1, HashStep(h, At(key, i)))

hash_string(key) == HashLoop_(key, 0, <<33052, 40389>>)

HashMod(h, capacity) == ((h[1] % capacity) * (65536 % capacity) + h[2]) % capacity

(***************************************************************************)
(* Reachability, as the collector is meant to see it: the roots and the    *)
(* references each kind of object holds.                                   *)
(***************************************************************************)
ValueObjects(values) == {AS_OBJECT(x) : x \in {y \in values : IS_OBJECT(y)}}

SeqRange(seq) == {seq[i] : i \in 1..Len(seq)}

TableObjects(table) ==
    ({e.key : e \in SeqRange(table.entries)} \ {NULL})
        \cup ValueObjects({e.value : e \in SeqRange(table.entries)})

Roots(w) ==
    (ValueObjects({StackRead(w, s) : s \in 0..(w.vm.stack_top - 1)})
        \cup {w.vm.frames[i].closure : i \in 1..w.vm.frame_count}
        \cup SeqRange(w.vm.open_upvalues)
        \cup TableObjects(w.vm.globals)
        \cup {w.cc[i].function : i \in 1..Len(w.cc)}
        \cup {w.vm.init_string}) \ {NULL}

References(w, o) ==
    LET obj == w.heap[o] IN
    (CASE obj.type = "OBJECT_INSTANCE" -> {obj.klass} \cup TableObjects(obj.fields)
       [] obj.type = "OBJECT_CLOSURE" -> {obj.function} \cup SeqRange(obj.upvalues)
       [] obj.type = "OBJECT_FUNCTION" -> {obj.name} \cup ValueObjects(SeqRange(obj.chunk.constants.values))
       [] obj.type = "OBJECT_BOUND_METHOD" -> ValueObjects({obj.reciever}) \cup {obj.method}
       [] obj.type = "OBJECT_UPVALUE" -> ValueObjects({obj.closed})
       [] obj.type = "OBJECT_CLASS" -> {obj.name} \cup TableObjects(obj.methods)
       [] OTHER -> {}) \ {NULL}

RECURSIVE ReachableFrom(_, _)
ReachableFrom(w, set) ==
    LET more == set \cup UNION {References_(w, o) : o \in {x \in set : x \in DOMAIN w.heap}}
    IN  IF more = set THEN set ELSE ReachableFrom(w, more)

Reachable(w) == ReachableFrom_(w, Roots_(w))

(***************************************************************************)
(* Tables (table.c).  A table is addressed by where it lives: vm.strings,  *)
(* vm.globals, the methods of a class or the fields of an instance.        *)
(***************************************************************************)
TABLE_STRINGS == [k |-> "strings", o |-> NULL]
TABLE_GLOBALS == [k |-> "globals", o |-> NULL]
TableMethods(o) == [k |-> "methods", o |-> o]
TableFields(o) == [k |-> "fields", o |-> o]

GetTable(w, tref) ==
    CASE tref.k = "strings" -> w.vm.strings
      [] tref.k = "globals" -> w.vm.globals
      [] tref.k = "methods" -> w.heap[tref.o].methods
      [] tref.k = "fields" -> w.heap[tref.o].fields

PutTable(w, tref, table) ==
    CASE tref.k = "strings" -> [w EXCEPT !.vm.strings = table]
      [] tref.k = "globals" -> [w EXCEPT !.vm.globals = table]
      [] tref.k = "methods" -> [w EXCEPT !.heap[tref.o].methods = table]
      [] tref.k = "fields" -> [w EXCEPT !.heap[tref.o].fields = table]

(* The table is in memory that is still allocated. *)
TableValid(w, tref) == tref.o = NULL \/ Valid(w, tref.o)

EmptyTable == [count |-> 0, capacity |-> 0, entries |-> <<>>]

EmptyEntry == [key |-> NULL, value |-> NIL_VALUE]

GROW_CAPACITY(capacity) == IF capacity < 8 THEN 8 ELSE capacity * 2

RECURSIVE find_entry_loop(_, _, _, _, _)
(* A probe that takes a tombstone for the end of the chain. *)
find_entry_loop_to_tombstone(entries, capacity, key, index, tombstone) ==
    LET entry == At(entries, index) IN
    IF entry.key = NULL
    THEN index
    ELSE IF entry.key = key
         THEN index
         ELSE find_entry_loop_(entries, capacity, key, (index + 1) % capacity, tombstone)

find_entry_loop(entries, capacity, key, index, tombstone) ==
    LET entry == At(entries, index) IN
    IF entry.key = NULL
    THEN IF IS_NIL(entry.value)
         THEN (IF tombstone # -1 THEN tombstone ELSE index)
         ELSE find_entry_loop(entries, capacity, key, (index + 1) % capacity,
                              IF tombstone = -1 THEN index ELSE tombstone)
    ELSE IF entry.key = key
         THEN index
         ELSE find_entry_loop(entries, capacity, key, (index + 1) % capacity, tombstone)

(* find_entry: the index of the entry; key->hash is read from the heap. *)
find_entry(w, entries, capacity, key) ==
    find_entry_loop_(entries, capacity, key, HashMod(w.heap[key].hash, capacity), -1)

(***************************************************************************)
(* The collector (memory.c).  The loops of the collector run over arrays   *)
(* and lists whose elements they treat one by one and independently; each  *)
(* is taken as a whole here, on the set of pointers it visits.  The gray   *)
(* stack is held as the set of its elements; its capacity is not held.     *)
(***************************************************************************)
(* mark_object on each pointer of `objects`. *)
mark_object(w, objects) ==
    LET pointers == objects \ {NULL} IN
    IF w.ub THEN w
    ELSE IF \E o \in pointers : ~Valid(w, o) THEN Undefined(w)
    ELSE LET white == {o \in pointers : ~w.heap[o].is_marked} IN
         [w EXCEPT !.heap = SubSeq([o \in DOMAIN w.heap |->
                                        IF o \in white THEN [w.heap[o] EXCEPT !.is_marked = TRUE]
                                        ELSE w.heap[o]], 1, Len(w.heap)),
                   !.vm.gray_stack = w.vm.gray_stack \cup white]

(* mark_value on each value of `values`. *)
mark_value(w, values) == mark_object(w, ValueObjects(values))

(* The pointers mark_array hands to mark_value. *)
mark_array(array) == ValueObjects({At(array.values, i) : i \in 0..(array.count - 1)})

(* The pointers mark_table hands to mark_object and mark_value. *)
mark_table(table) ==
    {At(table.entries, i).key : i \in 0..(table.capacity - 1)}
        \cup ValueObjects({At(table.entries, i).value : i \in 0..(table.capacity - 1)})

(* compiler.c: from `current` up the chain of enclosing compilers. *)
mark_compiler_roots(w) == mark_object(w, {w.cc[i].function : i \in 1..Len(w.cc)})

(* mark_roots without mark_table(&vm.globals). *)
mark_roots_skips_globals(w) ==
    LET w1 == mark_value(w, {StackRead(w, slot) : slot \in 0..(w.vm.stack_top - 1)})
        w2 == mark_object(w1, {At(w.vm.frames, i).closure : i \in 0..(w.vm.frame_count - 1)})
        w3 == mark_object(w2, SeqRange(w.vm.open_upvalues))
        w5 == mark_compiler_roots(w3)
    IN  mark_object(w5, {w.vm.init_string})

mark_roots(w) ==
    LET w1 == mark_value(w, {StackRead(w, slot) : slot \in 0..(w.vm.stack_top - 1)})
        w2 == mark_object(w1, {At(w.vm.frames, i).closure : i \in 0..(w.vm.frame_count - 1)})
        w3 == mark_object(w2, SeqRange(w.vm.open_upvalues))
        w4 == mark_object(w3, mark_table(w.vm.globals))
        w5 == mark_compiler_roots(w4)
    IN  CASE w1.ub -> w1
          [] w2.ub -> w2
          [] w3.ub -> w3
          [] w4.ub -> w4
          [] w5.ub -> w5
          [] OTHER ->  mark_object(w5, {w.vm.init_string})

(* The pointers blacken_object marks. *)
blacken_object(w, object) ==
    LET obj == w.heap[object] IN
    CASE obj.type = "OBJECT_INSTANCE" -> {obj.klass} \cup mark_table(obj.fields)
      [] obj.type = "OBJECT_CLOSURE" ->
            {obj.function} \cup {At(obj.upvalues, i) : i \in 0..(obj.upvalue_count - 1)}
      [] obj.type = "OBJECT_FUNCTION" -> {obj.name} \cup mark_array(obj.chunk.constants)
      [] obj.type = "OBJECT_BOUND_METHOD" -> ValueObjects({obj.reciever}) \cup {obj.method}
      [] obj.type = "OBJECT_UPVALUE" -> ValueObjects({obj.closed})
      [] obj.type = "OBJECT_CLASS" -> {obj.name} \cup mark_table(obj.methods)
      [] OTHER -> {}

(* trace_references: the gray objects are blackened until none is left. *)
RECURSIVE trace_references(_)
trace_references(w) ==
    IF w.ub \/ w.vm.gray_stack = {} THEN w
    ELSE LET gray == w.vm.gray_stack
             w1   == [w EXCEPT !.vm.gray_stack = {}]
         IN  CASE w1.ub -> w1
               [] OTHER ->  trace_references(mark_object(w1, UNION {blacken_object_(w, o) : o \in gray}))

(* table_del. *)
table_del(w, tref, key) ==
    LET table == GetTable(w, tref) IN
    IF table.count = 0 THEN Ret(w, FALSE)
    ELSE IF ~Valid(w, key) THEN Undefined(Ret(w, FALSE))
    ELSE LET index == find_entry(w, table.entries, table.capacity, key)
             entry == At(table.entries, index)
         IN  IF entry.key = NULL THEN Ret(w, FALSE)
             ELSE Ret(PutTable(w, tref,
                        [table EXCEPT !.entries = SetAt(table.entries, index,
                                [key |-> NULL, value |-> BOOL_VALUE(TRUE)])]), TRUE)

(* table_remove_white: table_del on each key that is not marked; the entry *)
(* table_del finds for a key is the entry the key is read from.            *)
table_remove_white(w, tref) ==
    LET table == GetTable(w, tref) IN
    IF w.ub THEN w
    ELSE IF \E e \in SeqRange(table.entries) : e.key # NULL /\ ~Valid(w, e.key) THEN Undefined(w)
    ELSE PutTable(w, tref,
            [table EXCEPT !.entries =
                SubSeq([i \in 1..table.capacity |->
                            IF table.entries[i].key # NULL /\ ~w.heap[table.entries[i].key].is_marked
                            THEN [key |-> NULL, value |-> BOOL_VALUE(TRUE)]
                            ELSE table.entries[i]], 1, table.capacity)])

(* The bytes free_object gives back through reallocate(pointer, size, 0). *)
free_object(obj) ==
    CASE obj.type = "OBJECT_INSTANCE" -> SIZEOF_ENTRY * obj.fields.capacity + SIZEOF_OBJECT_INSTANCE
      [] obj.type = "OBJECT_STRING" -> (obj.length + 1) + SIZEOF_OBJECT_STRING
      [] obj.type = "OBJECT_FUNCTION" ->
            obj.chunk.capacity + SIZEOF_INT * obj.chunk.capacity
                + SIZEOF_VALUE * obj.chunk.constants.capacity + SIZEOF_OBJECT_FUNCTION
      [] obj.type = "OBJECT_BOUND_METHOD" -> SIZEOF_OBJECT_BOUND_METHOD
      [] obj.type = "OBJECT_CLOSURE" -> SIZEOF_POINTER * obj.upvalue_count + SIZEOF_OBJECT_CLOSURE
      [] obj.type = "OBJECT_UPVALUE" -> SIZEOF_OBJECT_UPVALUE
      [] obj.type = "OBJECT_NATIVE" -> SIZEOF_OBJECT_NATIVE
      [] obj.type = "OBJECT_CLASS" -> SIZEOF_ENTRY * obj.methods.capacity + SIZEOF_OBJECT_CLASS
      [] obj.type = "FAILED_LINES" -> obj.bytes

RECURSIVE SumBytes(_, _, _, _)
SumBytes(w, list, lo, hi) ==
    IF lo > hi THEN 0
    ELSE IF lo = hi
    THEN (IF w.heap[list[lo]].is_marked THEN 0 ELSE free_object(w.heap[list[lo]]))
    ELSE SumBytes(w, list, lo, (lo + hi) \div 2) + SumBytes(w, list, ((lo + hi) \div 2) + 1, hi)

(* sweep that leaves the mark of the objects it keeps. *)
sweep_keeps_marks(w) ==
    LET list == w.vm.objects
        kept == {list[i] : i \in {j \in 1..Len(list) : w.heap[list[j]].is_marked}}
        gone == SeqRange(list) \ kept
    IN  [w EXCEPT !.heap = SubSeq([o \in DOMAIN w.heap |->
                                        IF o \in gone THEN [w.heap[o] EXCEPT !.freed = TRUE]
                                        ELSE w.heap[o]], 1, Len(w.heap)),
                  !.vm.objects = SelectSeq(list, LAMBDA o : o \in kept),
                  !.vm.bytes_allocated = w.vm.bytes_allocated - SumBytes_(w, list, 1, Len(list))]

(* sweep that does not give the bytes of the freed objects back. *)
sweep_keeps_bytes(w) ==
    LET list == w.vm.objects
        kept == {list[i] : i \in {j \in 1..Len(list) : w.heap[list[j]].is_marked}}
        gone == SeqRange(list) \ kept
    IN  [w EXCEPT !.heap = SubSeq([o \in DOMAIN w.heap |->
                                        IF o \in kept THEN [w.heap[o] EXCEPT !.is_marked = FALSE]
                                        ELSE IF o \in gone THEN [w.heap[o] EXCEPT !.freed = TRUE]
                                        ELSE w.heap[o]], 1, Len(w.heap)),
                  !.vm.objects = SelectSeq(list, LAMBDA o : o \in kept)]

(* sweep: the marked objects of the list vm.objects are unmarked and kept, *)
(* the others unlinked and freed.                                          *)
(* A sweep that frees the unmarked objects and leaves them on the list. *)
sweep_leaves_links(w) ==
    LET list == w.vm.objects
        kept == {list[i] : i \in {j \in 1..Len(list) : w.heap[list[j]].is_marked}}
        gone == SeqRange(list) \ kept
    IN  [w EXCEPT !.heap = SubSeq([o \in DOMAIN w.heap |->
                                        IF o \in kept THEN [w.heap[o] EXCEPT !.is_marked = FALSE]
                                        ELSE IF o \in gone THEN [w.heap[o] EXCEPT !.freed = TRUE]
                                        ELSE w.heap[o]], 1, Len(w.heap)),
                  !.vm.bytes_allocated = w.vm.bytes_allocated - SumBytes_(w, list, 1, Len(list))]

sweep(w) ==
    LET list == w.vm.objects
        kept == {list[i] : i \in {j \in 1..Len(list) : w.heap[list[j]].is_marked}}
        gone == SeqRange(list) \ kept
    IN  [w EXCEPT !.heap = SubSeq([o \in DOMAIN w.heap |->
                                        IF o \in kept THEN [w.heap[o] EXCEPT !.is_marked = FALSE]
                                        ELSE IF o \in gone THEN [w.heap[o] EXCEPT !.freed = TRUE]
                                        ELSE w.heap[o]], 1, Len(w.heap)),
                  !.vm.objects = SelectSeq(list, LAMBDA o : o \in kept),
                  !.vm.bytes_allocated = w.vm.bytes_allocated - SumBytes_(w, list, 1, Len(list))]

MarkedSet(w) == {o \in DOMAIN w.heap : ~w.heap[o].freed /\ w.heap[o].is_marked}

(* The closures that a slot of the value stack below stack_top holds and   *)
(* whose upvalues array has a NULL entry.                                  *)
UnfilledOnStack(w) ==
    {o \in DOMAIN w.heap :
        /\ ~w.heap[o].freed
        /\ w.heap[o].type = "OBJECT_CLOSURE"
        /\ NULL \in SeqRange(w.heap[o].upvalues)
        /\ \E slot \in 0..(w.vm.stack_top - 1) : StackRead(w, slot) = OBJECT_VALUE(o)}

(* A collector that leaves the strings table as it is before it sweeps. *)
collect_garbage_keeps_white(w) ==
    IF w.ub THEN w
    ELSE LET w1 == mark_roots_(w)
             w3 == trace_references_(w1)
         IN  CASE w1.ub -> w1
               [] w3.ub -> w3
               [] OTHER ->
                  LET w4 == sweep_(w3)
                      w5 == [w4 EXCEPT !.vm.next_gc = w4.vm.bytes_allocated * GC_HEAP_GROW_FACTOR]
                  IN  CASE w4.ub -> w4
                        [] OTHER ->  [w5 EXCEPT !.gclog = Append(w.gclog,
                            [reachable |-> Reachable(w),
                             before    |-> w.vm.objects,
                             unfilled  |-> UnfilledOnStack(w),
                             marked    |-> MarkedSet(w3),
                             after     |-> w5.vm.objects,
                             unmarked  |-> MarkedSet(w5) = {},
                             strings   |-> TableObjects(w5.vm.strings),
                             bytes     |-> w5.vm.bytes_allocated,
                             owned     |-> SumBytes_(w5, w5.vm.objects, 1, Len(w5.vm.objects)),
                             tables    |-> SIZEOF_ENTRY * (w5.vm.strings.capacity
                                                            + w5.vm.globals.capacity)])]

collect_garbage(w) ==
    IF w.ub THEN w
    ELSE LET w1 == mark_roots_(w)
             w2 == trace_references_(w1)
             w3 == table_remove_white_(w2, TABLE_STRINGS)
         IN  CASE w1.ub -> w1
               [] w2.ub -> w2
               [] w3.ub -> w3
               [] OTHER ->  IF w3.ub THEN w3
             ELSE LET w4 == sweep_(w3)
                      w5 == [w4 EXCEPT !.vm.next_gc = w4.vm.bytes_allocated * GC_HEAP_GROW_FACTOR]
                  IN  CASE w4.ub -> w4
                        [] w5.ub -> w5
                        [] OTHER ->  [w5 EXCEPT !.gclog = Append(w.gclog,
                            [reachable |-> Reachable(w),
                             before    |-> w.vm.objects,
                             unfilled  |-> UnfilledOnStack(w),
                             marked    |-> MarkedSet(w3),
                             after     |-> w5.vm.objects,
                             unmarked  |-> MarkedSet(w5) = {},
                             strings   |-> TableObjects(w5.vm.strings),
                             bytes     |-> w5.vm.bytes_allocated,
                             owned     |-> SumBytes_(w5, w5.vm.objects, 1, Len(w5.vm.objects)),
                             tables    |-> SIZEOF_ENTRY * (w5.vm.strings.capacity
                                                            + w5.vm.globals.capacity)])]

(* A reallocate that compares with next_gc before it adds the request. *)
reallocate_checks_before(w, old_size, new_size) ==
    LET w1 == [w EXCEPT !.vm.bytes_allocated = w.vm.bytes_allocated + new_size - old_size]
    IN  IF new_size > old_size
        THEN LET w2 == IF w1.stress THEN collect_garbage_(w1) ELSE w1
             IN  CASE w2.ub -> w2
                   [] OTHER ->  IF w.vm.bytes_allocated > w2.vm.next_gc THEN collect_garbage_(w2) ELSE w2
        ELSE w1

(* reallocate: the accounting and the trigger of the collector. *)
reallocate(w, old_size, new_size) ==
    LET w1 == [w EXCEPT !.vm.bytes_allocated = w.vm.bytes_allocated + new_size - old_size]
    IN  CASE w1.ub -> w1
          [] OTHER ->  IF new_size > old_size
        THEN LET w2 == IF w1.stress THEN collect_garbage_(w1) ELSE w1
             IN  CASE w2.ub -> w2
                   [] OTHER ->  IF w2.vm.bytes_allocated > w2.vm.next_gc THEN collect_garbage_(w2) ELSE w2
        ELSE w1

(***************************************************************************)
(* Tables, continued: the operations that may allocate.                    *)
(***************************************************************************)
RECURSIVE adjust_capacity_loop(_, _, _, _, _, _)
adjust_capacity_loop(w, old, entries, capacity, i, count) ==
    IF i >= old.capacity THEN [entries |-> entries, count |-> count]
    ELSE LET entry == At(old.entries, i) IN
         IF entry.key = NULL
         THEN adjust_capacity_loop(w, old, entries, capacity, i + 1, count)
         ELSE LET dest == find_entry(w, entries, capacity, entry.key)
              IN  adjust_capacity_loop(w, old, SetAt(entries, dest, entry), capacity, i + 1, count + 1)

KeysValid(w, table) == \A e \in SeqRange(table.entries) : e.key = NULL \/ Valid(w, e.key)

adjust_capacity(w, tref, capacity) ==
    LET w1 == reallocate_(w, 0, SIZEOF_ENTRY * capacity) IN  CASE w1.ub -> w1
                                                              [] OTHER ->
    IF w1.ub THEN w1
    ELSE IF ~TableValid(w1, tref) \/ ~KeysValid(w1, GetTable(w1, tref)) THEN Undefined(w1)
    ELSE LET old  == GetTable(w1, tref)
             new  == adjust_capacity_loop_(w1, old, SubSeq([i \in 1..capacity |-> EmptyEntry], 1, capacity), capacity, 0, 0)
             w2   == reallocate_(w1, SIZEOF_ENTRY * old.capacity, 0)
         IN  CASE w2.ub -> w2
               [] OTHER ->  PutTable(w2, tref, [count |-> new.count, capacity |-> capacity, entries |-> new.entries])

(* table_get: w.ret is [found, value]. *)
table_get(w, tref, key) ==
    IF ~TableValid(w, tref) THEN Undefined(Ret(w, [found |-> FALSE, value |-> NIL_VALUE]))
    ELSE LET table == GetTable(w, tref) IN
         IF table.count = 0 THEN Ret(w, [found |-> FALSE, value |-> NIL_VALUE])
         ELSE IF ~Valid(w, key) THEN Undefined(Ret(w, [found |-> FALSE, value |-> NIL_VALUE]))
         ELSE LET entry == At(table.entries, find_entry(w, table.entries, table.capacity, key))
              IN  IF entry.key = NULL THEN Ret(w, [found |-> FALSE, value |-> NIL_VALUE])
                  ELSE Ret(w, [found |-> TRUE, value |-> entry.value])

(* table_set: w.ret is is_new_key. *)
(* A table_set that counts every new key, the ones put in tombstones too. *)
table_set_counts_tombstones(w, tref, key, value) ==
    IF w.ub \/ ~TableValid(w, tref) THEN Undefined(Ret(w, FALSE))
    ELSE LET t0 == GetTable(w, tref)
             w1 == IF 4 * (t0.count + 1) > 3 * t0.capacity
                   THEN adjust_capacity_(w, tref, GROW_CAPACITY(t0.capacity))
                   ELSE w
         IN  IF w1.ub \/ ~TableValid(w1, tref) \/ ~Valid(w1, key) THEN Undefined(Ret(w1, FALSE))
             ELSE LET table      == GetTable(w1, tref)
                      index      == find_entry(w1, table.entries, table.capacity, key)
                      is_new_key == At(table.entries, index).key = NULL
                  IN  Ret(PutTable(w1, tref,
                            [table EXCEPT !.count = IF is_new_key THEN table.count + 1
                                                    ELSE table.count,
                                          !.entries = SetAt(table.entries, index,
                                                            [key |-> key, value |-> value])]),
                          is_new_key)

table_set(w, tref, key, value) ==
    IF w.ub \/ ~TableValid(w, tref) THEN Undefined(Ret(w, FALSE))
    ELSE LET t0 == GetTable(w, tref)
             w1 == IF 4 * (t0.count + 1) > 3 * t0.capacity
                   THEN adjust_capacity_(w, tref, GROW_CAPACITY(t0.capacity))
                   ELSE w
         IN  CASE w1.ub -> w1
               [] OTHER ->  IF w1.ub \/ ~TableValid(w1, tref) \/ ~Valid(w1, key) THEN Undefined(Ret(w1, FALSE))
             ELSE LET table      == GetTable(w1, tref)
                      index      == find_entry(w1, table.entries, table.capacity, key)
                      entry      == At(table.entries, index)
                      is_new_key == entry.key = NULL
                      count      == IF is_new_key /\ IS_NIL(entry.value)
                                    THEN table.count + 1 ELSE table.count
                  IN  Ret(PutTable(w1, tref,
                            [table EXCEPT !.count = count,
                                          !.entries = SetAt(table.entries, index,
                                                            [key |-> key, value |-> value])]),
                          is_new_key)

RECURSIVE table_add_all_loop(_, _, _, _)
table_add_all_loop(w, from, to, i) ==
    IF w.ub \/ ~TableValid(w, from) THEN Undefined(w)
    ELSE LET table == GetTable(w, from) IN
         IF i >= table.capacity THEN w
         ELSE LET entry == At(table.entries, i) IN
              IF entry.key # NULL
              THEN table_add_all_loop(table_set_(w, to, entry.key, entry.value), from, to, i + 1)
              ELSE table_add_all_loop(w, from, to, i + 1)

(* table_add_all with `from` and `to` exchanged. *)
table_add_all_reversed(w, from, to) == table_add_all_loop_(w, to, from, 0)

table_add_all(w, from, to) == table_add_all_loop_(w, from, to, 0)

RECURSIVE table_find_string_loop(_, _, _, _, _)
table_find_string_loop(w, chars, length, hash, index) ==
    LET table == w.vm.strings
        entry == At(table.entries, index)
    IN  IF entry.key = NULL
        THEN IF IS_NIL(entry.value) THEN Ret(w, NULL)
             ELSE table_find_string_loop(w, chars, length, hash, (index + 1) % table.capacity)
        ELSE IF ~Valid(w, entry.key) THEN Undefined(Ret(w, NULL))
        ELSE IF w.heap[entry.key].length = length
                /\ w.heap[entry.key].hash = hash
                /\ w.heap[entry.key].chars = chars
             THEN Ret(w, entry.key)
             ELSE table_find_string_loop(w, chars, length, hash, (index + 1) % table.capacity)

(* table_find_string that finds no string. *)
table_find_string_none(w, chars, length, hash) == Ret(w, NULL)

(* table_find_string: w.ret is the interned string or NULL. *)
table_find_string(w, chars, length, hash) ==
    IF w.vm.strings.count = 0 THEN Ret(w, NULL)
    ELSE table_find_string_loop_(w, chars, length, hash, HashMod(hash, w.vm.strings.capacity))

(***************************************************************************)
(* Objects (object.c).                                                     *)
(***************************************************************************)
(* allocate_object: w.ret is the address of the new object, linked at the  *)
(* head of vm.objects; `fields` are the fields the caller sets next.       *)
allocate_object(w, size, type, fields) ==
    LET w1     == reallocate_(w, 0, size)
        object == Len(w1.heap) + 1
        header == [type |-> type, is_marked |-> FALSE, freed |-> FALSE]
    IN  CASE w1.ub -> w1
          [] OTHER ->  Ret([w1 EXCEPT !.heap = Append(w1.heap, header @@ fields),
                       !.vm.objects = <<object>> \o w1.vm.objects],
            object)

allocate_string(w, chars, length, hash) ==
    LET w1     == allocate_object(w, SIZEOF_OBJECT_STRING, "OBJECT_STRING",
                                  [length |-> length, chars |-> chars, hash |-> hash])
        string == w1.ret
        w2     == stack_push(w1, OBJECT_VALUE(string))
        w3     == table_set_(w2, TABLE_STRINGS, string, NIL_VALUE)
        w4     == stack_pop(w3)
    IN  CASE w1.ub -> w1
          [] w2.ub -> w2
          [] w3.ub -> w3
          [] w4.ub -> w4
          [] OTHER ->  Ret(w4, string)

take_string(w, chars, length) ==
    LET hash == hash_string(chars)
        w1   == table_find_string(w, chars, length, hash)
    IN  CASE w1.ub -> w1
          [] OTHER ->  IF w1.ub THEN w1
        ELSE IF w1.ret # NULL
             THEN Ret(reallocate_(w1, length + 1, 0), w1.ret)
             ELSE allocate_string_(w1, chars, length, hash)

copy_string(w, chars, length) ==
    LET hash == hash_string(chars)
        w1   == table_find_string(w, chars, length, hash)
    IN  CASE w1.ub -> w1
          [] OTHER ->  IF w1.ub \/ w1.ret # NULL THEN w1
        ELSE allocate_string_(reallocate_(w1, 0, length + 1), chars, length, hash)

EmptyChunk ==
    [count |-> 0, capacity |-> 0, code |-> <<>>,
     constants |-> [count |-> 0, capacity |-> 0, values |-> <<>>]]

new_function(w) ==
    allocate_object(w, SIZEOF_OBJECT_FUNCTION, "OBJECT_FUNCTION",
                    [arity |-> 0, name |-> NULL, upvalue_count |-> 0, chunk |-> EmptyChunk])

new_upvalue(w, slot) ==
    allocate_object(w, SIZEOF_OBJECT_UPVALUE, "OBJECT_UPVALUE",
                    [location |-> [own |-> FALSE, slot |-> slot], closed |-> NIL_VALUE])

new_closure(w, function) ==
    IF ~Valid(w, function) THEN Undefined(Ret(w, NULL))
    ELSE LET n  == w.heap[function].upvalue_count
             w1 == reallocate_(w, 0, SIZEOF_POINTER * n)
         IN  CASE w1.ub -> w1
               [] OTHER ->  allocate_object(w1, SIZEOF_OBJECT_CLOSURE, "OBJECT_CLOSURE",
                             [upvalue_count |-> n, function |-> function,
                              upvalues |-> SubSeq([i \in 1..n |-> NULL], 1, n)])

new_class(w, name) ==
    allocate_object(w, SIZEOF_OBJECT_CLASS, "OBJECT_CLASS",
                    [name |-> name, methods |-> EmptyTable])

new_instance(w, klass) ==
    allocate_object(w, SIZEOF_OBJECT_INSTANCE, "OBJECT_INSTANCE",
                    [klass |-> klass, fields |-> EmptyTable])

new_bound_method(w, reciever, method) ==
    allocate_object(w, SIZEOF_OBJECT_BOUND_METHOD, "OBJECT_BOUND_METHOD",
                    [reciever |-> reciever, method |-> method])

new_native(w, function) ==
    allocate_object(w, SIZEOF_OBJECT_NATIVE, "OBJECT_NATIVE", [function |-> function])

(***************************************************************************)
(* Chunks (chunk.c).  The line of each byte is not held: only its array's  *)
(* allocation is.                                                          *)
(***************************************************************************)
write_chunk(w, function, byte) ==
    IF w.ub \/ ~Valid(w, function) THEN Undefined(w)
    ELSE LET chunk == w.heap[function].chunk IN
         IF chunk.capacity < chunk.count + 1
         THEN LET old_c    == chunk.capacity
                  capacity == GROW_CAPACITY(old_c)
                  w1 == [w EXCEPT !.heap[function].chunk.capacity = capacity]
                  w2 == reallocate_(w1, old_c, capacity)
                  w3 == reallocate_(w2, SIZEOF_INT * old_c, SIZEOF_INT * capacity)
              IN  CASE w1.ub -> w1
                    [] w2.ub -> w2
                    [] w3.ub -> w3
                    [] OTHER ->  IF w3.ub \/ ~Valid(w3, function) THEN Undefined(w3)
                  ELSE [w3 EXCEPT !.heap[function].chunk.code = Append(chunk.code, byte),
                                  !.heap[function].chunk.count = chunk.count + 1]
         ELSE [w EXCEPT !.heap[function].chunk.code = Append(chunk.code, byte),
                        !.heap[function].chunk.count = chunk.count + 1]

write_value_array(w, function, value) ==
    IF w.ub \/ ~Valid(w, function) THEN Undefined(w)
    ELSE LET array == w.heap[function].chunk.constants IN
         IF array.capacity < array.count + 1
         THEN LET old_c    == array.capacity
                  capacity == GROW_CAPACITY(old_c)
                  w1 == [w EXCEPT !.heap[function].chunk.constants.capacity = capacity]
                  w2 == reallocate_(w1, SIZEOF_VALUE * old_c, SIZEOF_VALUE * capacity)
              IN  CASE w1.ub -> w1
                    [] w2.ub -> w2
                    [] OTHER ->  IF w2.ub \/ ~Valid(w2, function) THEN Undefined(w2)
                  ELSE [w2 EXCEPT !.heap[function].chunk.constants.values = Append(array.values, value),
                                  !.heap[function].chunk.constants.count = array.count + 1]
         ELSE [w EXCEPT !.heap[function].chunk.constants.values = Append(array.values, value),
                        !.heap[function].chunk.constants.count = array.count + 1]

(* add_constant: w.ret is the index of the constant. *)
add_constant(w, function, value) ==
    LET w1 == stack_push(w, value)
        w2 == write_value_array_(w1, function, value)
        w3 == stack_pop(w2)
    IN  CASE w1.ub -> w1
          [] w2.ub -> w2
          [] w3.ub -> w3
          [] OTHER ->  IF w3.ub THEN Ret(w3, 0)
        ELSE Ret(w3, w3.heap[function].chunk.constants.count - 1)

(***************************************************************************)
(* The compiler (compiler.c).  The scanner is outside the repository's     *)
(* sources: a source text is the sequence of tokens scan_token() returns   *)
(* for it, each [type, lexeme]; past the end it returns TOKEN_EOF.         *)
(***************************************************************************)
PREC_NONE == 0
PREC_ASSIGNMENT == 1
PREC_OR == 2
PREC_AND == 3
PREC_EQUALITY == 4
PREC_COMPARISON == 5
PREC_TERM == 6
PREC_FACTOR == 7
PREC_UNARY == 8
PREC_CALL == 9
PREC_PRIMARY == 10

Token(type, lexeme) == [type |-> type, lexeme |-> lexeme]

EofToken == Token("TOKEN_EOF", <<>>)

Current(w) == w.cc[Len(w.cc)]

current_chunk(w) == w.heap[Current(w).function].chunk

scan_token(w) ==
    IF w.parser.pos > Len(w.parser.toks) THEN Ret(w, EofToken)
    ELSE Ret([w EXCEPT !.parser.pos = w.parser.pos + 1], w.parser.toks[w.parser.pos])

error_at(w, token, message) ==
    IF w.parser.panicMode THEN w
    ELSE [w EXCEPT !.parser.panicMode = TRUE,
                   !.parser.hadError = TRUE,
                   !.errs = Append(w.errs, message)]

error(w, message) == error_at(w, w.parser.previous, message)

error_at_current(w, message) == error_at(w, w.parser.current, message)

RECURSIVE advance_loop(_)
advance_loop(w) ==
    LET w1 == scan_token(w)
        w2 == [w1 EXCEPT !.parser.current = w1.ret]
    IN  CASE w1.ub -> w1
          [] w2.ub -> w2
          [] OTHER ->  IF w2.parser.current.type # "TOKEN_ERROR" THEN w2
        ELSE advance_loop(error_at_current(w2, "scanner error"))

advance(w) == advance_loop_([w EXCEPT !.parser.previous = w.parser.current])

consume(w, type, message) ==
    IF w.parser.current.type = type THEN advance(w)
    ELSE error_at_current(w, message)

check(w, type) == w.parser.current.type = type

(* match: w.ret is whether the token matched. *)
match(w, type) ==
    IF ~check(w, type) THEN Ret(w, FALSE) ELSE Ret(advance(w), TRUE)

make_constant(w, value) ==
    LET w1 == add_constant_(w, Current(w).function, value) IN  CASE w1.ub -> w1
                                                                [] OTHER ->
    IF w1.ret > UINT8_MAX
    THEN Ret(error(w1, "Too many constants in one chunk."), 0)
    ELSE w1

emit_byte(w, byte) == write_chunk_(w, Current(w).function, byte)

emit_bytes(w, byte1, byte2) == emit_byte(emit_byte(w, byte1), byte2)

emit_loop(w, loop_start) ==
    LET w1     == emit_byte(w, OP_LOOP)
        offset == current_chunk(w1).count - loop_start + 2
        w2     == IF offset > UINT16_MAX THEN error(w1, "Loop body too large.") ELSE w1
    IN  CASE w1.ub -> w1
          [] w2.ub -> w2
          [] OTHER ->  emit_byte(emit_byte(w2, (offset \div 256) % 256), offset % 256)

(* emit_jump: w.ret is the offset handed to patch_jump. *)
emit_jump(w, instruction) ==
    LET w1 == emit_byte(emit_byte(emit_byte(w, instruction), 255), 255)
    IN  CASE w1.ub -> w1
          [] OTHER ->  Ret(w1, current_chunk(w1).count - 1)

emit_constant(w, value) ==
    LET w1 == make_constant(w, value) IN  CASE w1.ub -> w1
                                            [] OTHER -> emit_bytes(w1, OP_CONSTANT, w1.ret)

patch_jump(w, offset) ==
    LET function == Current(w).function
        chunk    == current_chunk(w)
        jump     == chunk.count - offset - 2
        w1       == IF jump > UINT16_MAX THEN error(w, "Too much code to jump over.") ELSE w
    IN  CASE w1.ub -> w1
          [] OTHER ->  IF offset + 1 >= chunk.count THEN Undefined(w1)
        ELSE [w1 EXCEPT !.heap[function].chunk.code =
                            SetAt(SetAt(chunk.code, offset, (jump \div 256) % 256),
                                  offset + 1, jump % 256)]

(* emit_return that emits OP_NIL in an initializer too. *)
emit_return_nil(w) == emit_byte(emit_byte(w, OP_NIL), OP_RETURN)

emit_return(w) ==
    LET w1 == IF Current(w).type = "TYPE_INITIALIZER"
              THEN emit_bytes(w, OP_GET_LOCAL, 0)
              ELSE emit_byte(w, OP_NIL)
    IN  CASE w1.ub -> w1
          [] OTHER ->  emit_byte(w1, OP_RETURN)

this_chars == <<116, 104, 105, 115>>
super_chars == <<115, 117, 112, 101, 114>>
init_chars == <<105, 110, 105, 116>>
clock_chars == <<99, 108, 111, 99, 107>>

init_compiler(w, type) ==
    LET w1 == new_function(w)
        w2 == [w1 EXCEPT !.cc = Append(w1.cc,
                    [function |-> w1.ret, type |-> type, upvalues |-> <<>>,
                     locals |-> <<>>, scope_depth |-> 0])]
        w3 == IF type # "TYPE_SCRIPT"
              THEN LET w2a == copy_string(w2, w2.parser.previous.lexeme, Len(w2.parser.previous.lexeme))
                   IN  CASE w2a.ub -> w2a
                         [] OTHER ->  IF w2a.ub THEN w2a
                       ELSE [w2a EXCEPT !.heap[Current(w2a).function].name = w2a.ret]
              ELSE w2
        local == [name |-> IF type # "TYPE_FUNCTION" THEN this_chars ELSE <<>>,
                  depth |-> 0, is_captured |-> FALSE]
    IN  CASE w1.ub -> w1
          [] w2.ub -> w2
          [] w3.ub -> w3
          [] OTHER ->  [w3 EXCEPT !.cc[Len(w3.cc)].locals = <<local>>]

(* end_compiler: w.ret is the function compiled. *)
end_compiler(w) ==
    LET w1 == emit_return(w)
        function == Current(w1).function
    IN  CASE w1.ub -> w1
          [] OTHER ->  Ret([w1 EXCEPT !.cc = SubSeq(w1.cc, 1, Len(w1.cc) - 1)], function)

begin_scope(w) == [w EXCEPT !.cc[Len(w.cc)].scope_depth = Current(w).scope_depth + 1]

RECURSIVE end_scope_loop(_)
end_scope_loop(w) ==
    LET c == Current(w)
        n == Len(c.locals)
    IN  IF n > 0 /\ c.locals[n].depth > c.scope_depth
        THEN LET w1 == IF c.locals[n].is_captured
                       THEN emit_byte(w, OP_CLOSE_UPVALUE)
                       ELSE emit_byte(w, OP_POP)
             IN  CASE w1.ub -> w1
                   [] OTHER ->  IF w1.ub THEN w1
                 ELSE end_scope_loop([w1 EXCEPT !.cc[Len(w1.cc)].locals = SubSeq(c.locals, 1, n - 1)])
        ELSE w

end_scope(w) == end_scope_loop_([w EXCEPT !.cc[Len(w.cc)].scope_depth = Current(w).scope_depth - 1])

identifier_constant(w, name) ==
    LET w1 == copy_string(w, name, Len(name))
    IN  CASE w1.ub -> w1
          [] OTHER ->  IF w1.ub THEN Ret(w1, 0) ELSE make_constant(w1, OBJECT_VALUE(w1.ret))

identifiers_equal(a, b) == Len(a) = Len(b) /\ a = b

(* The loop of resolve_local from the local i down: it stops at the first  *)
(* local of the name, which is the one of greatest index.                  *)
resolve_local_loop(w, ci, name, i) ==
    LET named == {j \in 0..i : identifiers_equal(name, At(w.cc[ci].locals, j).name)}
        found == CHOOSE j \in named : \A k \in named : k <= j
    IN  IF named = {} THEN Ret(w, -1)
        ELSE Ret(IF At(w.cc[ci].locals, found).depth = -1
                 THEN error(w, "Can't read local variable in its own initializer.")
                 ELSE w, found)

(* resolve_local: the compiler is named by its place ci in the chain. *)
resolve_local(w, ci, name) == resolve_local_loop_(w, ci, name, Len(w.cc[ci].locals) - 1)

(* The loop of add_upvalue from the upvalue i up: it stops at the first    *)
(* upvalue of that index and kind.                                         *)
add_upvalue_loop(upvalues, index, is_local, i) ==
    LET same == {j \in i..(Len(upvalues) - 1) :
                    At(upvalues, j).index = index /\ At(upvalues, j).is_local = is_local}
    IN  IF same = {} THEN -1 ELSE CHOOSE j \in same : \A k \in same : j <= k

(* add_upvalue with UINT8_MAX as the number of upvalues a function holds. *)
add_upvalue_one_less(w, ci, index, is_local) ==
    LET function      == w.cc[ci].function
        upvalue_count == w.heap[function].upvalue_count
        known         == add_upvalue_loop_(SubSeq(w.cc[ci].upvalues, 1, upvalue_count), index, is_local, 0)
    IN  IF known # -1 THEN Ret(w, known)
        ELSE IF upvalue_count = UINT8_MAX
        THEN Ret(error(w, "Too many closure variables in a function."), 0)
        ELSE Ret([w EXCEPT !.cc[ci].upvalues = Append(w.cc[ci].upvalues,
                                [index |-> index, is_local |-> is_local]),
                           !.heap[function].upvalue_count = upvalue_count + 1],
                 upvalue_count)

add_upvalue(w, ci, index, is_local) ==
    LET function      == w.cc[ci].function
        upvalue_count == w.heap[function].upvalue_count
        known         == add_upvalue_loop_(SubSeq(w.cc[ci].upvalues, 1, upvalue_count), index, is_local, 0)
    IN  IF known # -1 THEN Ret(w, known)
        ELSE IF upvalue_count = UINT8_COUNT
        THEN Ret(error(w, "Too many closure variables in a function."), 0)
        ELSE Ret([w EXCEPT !.cc[ci].upvalues = Append(w.cc[ci].upvalues,
                                [index |-> index, is_local |-> is_local]),
                           !.heap[function].upvalue_count = upvalue_count + 1],
                 upvalue_count)

RECURSIVE resolve_upvalue(_, _, _)
resolve_upvalue(w, ci, name) ==
    IF ci = 1 THEN Ret(w, -1)
    ELSE LET w1    == resolve_local(w, ci - 1, name)
             local == w1.ret
         IN  CASE w1.ub -> w1
               [] OTHER ->  IF local # -1
             THEN add_upvalue_([w1 EXCEPT !.cc[ci - 1].locals[local + 1].is_captured = TRUE],
                              ci, local % 256, TRUE)
             ELSE LET w2      == resolve_upvalue(w1, ci - 1, name)
                      upvalue == w2.ret
                  IN  CASE w2.ub -> w2
                        [] OTHER ->  IF upvalue # -1
                      THEN add_upvalue_(w2, ci, upvalue % 256, FALSE)
                      ELSE Ret(w2, -1)

(* add_local that adds the local before it looks at local_count. *)
add_local_then_check(w, name) ==
    IF Len(Current(w).locals) > UINT8_COUNT
    THEN error(w, "Too many local variables in a function.")
    ELSE [w EXCEPT !.cc[Len(w.cc)].locals = Append(Current(w).locals,
                        [name |-> name, depth |-> -1, is_captured |-> FALSE])]

add_local(w, name) ==
    IF Len(Current(w).locals) = UINT8_COUNT
    THEN error(w, "Too many local variables in a function.")
    ELSE [w EXCEPT !.cc[Len(w.cc)].locals = Append(Current(w).locals,
                        [name |-> name, depth |-> -1, is_captured |-> FALSE])]

(* The loop of declare_variable from the local i down: it ends at the      *)
(* first local of an enclosing scope, and error() reports once, whatever   *)
(* the number of locals of the name above it.                              *)
declare_variable_loop(w, name, i) ==
    LET locals == Current(w).locals
        outer  == {j \in 0..i : /\ At(locals, j).depth # -1
                                /\ At(locals, j).depth < Current(w).scope_depth}
        stop   == IF outer = {} THEN -1 ELSE CHOOSE j \in outer : \A k \in outer : k <= j
    IN  IF \E j \in (stop + 1)..i : identifiers_equal(name, At(locals, j).name)
        THEN error(w, "Variable with the same name already declared in scope.")
        ELSE w

declare_variable(w) ==
    IF Current(w).scope_depth = 0 THEN w
    ELSE LET name == w.parser.previous.lexeme
         IN  add_local(declare_variable_loop_(w, name, Len(Current(w).locals) - 1), name)

parse_variable(w, error_message) ==
    LET w1 == declare_variable(consume(w, "TOKEN_IDENTIFIER", error_message))
    IN  CASE w1.ub -> w1
          [] OTHER ->  IF Current(w1).scope_depth > 0 THEN Ret(w1, 0)
        ELSE identifier_constant_(w1, w1.parser.previous.lexeme)

mark_initialized(w) ==
    IF Current(w).scope_depth = 0 THEN w
    ELSE [w EXCEPT !.cc[Len(w.cc)].locals[Len(Current(w).locals)].depth = Current(w).scope_depth]

define_variable(w, global) ==
    IF Current(w).scope_depth > 0 THEN mark_initialized(w)
    ELSE emit_bytes(w, OP_DEFINE_GLOBAL, global)


expression(w) == parse_precedence_(w, PREC_ASSIGNMENT)

named_variable(w, name, can_assign) ==
    LET ci == Len(w.cc)
        w1 == resolve_local(w, ci, name)
        w2 == IF w1.ret # -1 THEN w1 ELSE resolve_upvalue_(w1, ci, name)
        w3 == IF w1.ret # -1 \/ w2.ret # -1 THEN w2 ELSE identifier_constant_(w2, name)
        arg   == w3.ret
        getOp == IF w1.ret # -1 THEN OP_GET_LOCAL
                 ELSE IF w2.ret # -1 THEN OP_GET_UPVALUE ELSE OP_GET_GLOBAL
        setOp == IF w1.ret # -1 THEN OP_SET_LOCAL
                 ELSE IF w2.ret # -1 THEN OP_SET_UPVALUE ELSE OP_SET_GLOBAL
        w4 == IF can_assign THEN match(w3, "TOKEN_EQUAL") ELSE Ret(w3, FALSE)
    IN  CASE w1.ub -> w1
          [] w2.ub -> w2
          [] w3.ub -> w3
          [] w4.ub -> w4
          [] OTHER ->  IF w4.ret
        THEN LET w5 == expression(w4) IN  CASE w5.ub -> w5
                                            [] OTHER -> emit_bytes(w5, setOp, arg % 256)
        ELSE emit_bytes(w4, getOp, arg % 256)

RECURSIVE argument_list_loop(_, _)
argument_list_loop(w, arg_count) ==
    LET w1 == expression(w)
        w2 == IF arg_count = 255 THEN error(w1, "Can't have more than 255 characters.") ELSE w1
        w3 == match(w2, "TOKEN_COMMA")
    IN  CASE w1.ub -> w1
          [] w2.ub -> w2
          [] w3.ub -> w3
          [] OTHER ->  IF w3.ret /\ ~w3.ub THEN argument_list_loop(w3, (arg_count + 1) % 256)
        ELSE Ret(w3, (arg_count + 1) % 256)

(* argument_list: w.ret is arg_count, a uint8_t. *)
argument_list(w) ==
    LET w1 == IF ~check(w, "TOKEN_RIGHT_PAREN") THEN argument_list_loop_(w, 0) ELSE Ret(w, 0)
    IN  CASE w1.ub -> w1
          [] OTHER ->  Ret(consume(w1, "TOKEN_RIGHT_PAREN", "Expected ')' after arguments."), w1.ret)

and_(w, can_assign) ==
    LET w1 == emit_jump(w, OP_JUMP_IF_FALSE)
        end_jump == w1.ret
        w2 == emit_byte(w1, OP_POP)
        w3 == parse_precedence_(w2, PREC_AND)
    IN  CASE w1.ub -> w1
          [] w2.ub -> w2
          [] w3.ub -> w3
          [] OTHER ->  patch_jump_(w3, end_jump)

or_(w, can_assign) ==
    LET w1 == emit_jump(w, OP_JUMP_IF_FALSE)
        else_jump == w1.ret
        w2 == emit_jump(w1, OP_JUMP)
        end_jump == w2.ret
        w3 == patch_jump_(w2, else_jump)
        w4 == emit_byte(w3, OP_POP)
        w5 == parse_precedence_(w4, PREC_OR)
    IN  CASE w1.ub -> w1
          [] w2.ub -> w2
          [] w3.ub -> w3
          [] w4.ub -> w4
          [] w5.ub -> w5
          [] OTHER ->  patch_jump_(w5, end_jump)

RECURSIVE block_loop(_)
block_loop(w) ==
    IF ~w.ub /\ ~check(w, "TOKEN_RIGHT_BRACE") /\ ~check(w, "TOKEN_EOF")
    THEN LET w1 == declaration_(w) IN  CASE w1.ub -> w1
                                        [] OTHER -> block_loop(w1)
    ELSE w

block(w) ==
    LET w1 == block_loop_(w)
    IN  CASE w1.ub -> w1
          [] OTHER ->  consume(w1, "TOKEN_RIGHT_BRACE", "Expected '}' after block.")

RECURSIVE function_params(_)
function_params(w) ==
    LET f  == Current(w).function
        w1 == [w EXCEPT !.heap[f].arity = w.heap[f].arity + 1]
        w2 == IF w1.heap[f].arity > 255
              THEN error_at_current(w1, "Can't have more than 255 parameters.")
              ELSE w1
        w3 == parse_variable_(w2, "Expected parameter name.")
        w4 == define_variable(w3, w3.ret)
        w5 == match(w4, "TOKEN_COMMA")
    IN  CASE w1.ub -> w1
          [] w2.ub -> w2
          [] w3.ub -> w3
          [] w4.ub -> w4
          [] w5.ub -> w5
          [] OTHER ->  IF w5.ret /\ ~w5.ub THEN function_params(w5) ELSE w5

(* The loop of function() that emits the index of an upvalue alone. *)
RECURSIVE emit_upvalues_index_only(_, _, _)
emit_upvalues_index_only(w, upvalues, i) ==
    IF i >= Len(upvalues) THEN w
    ELSE emit_upvalues_index_only(emit_byte(w, At(upvalues, i).index), upvalues, i + 1)

RECURSIVE emit_upvalues(_, _, _)
emit_upvalues(w, upvalues, i) ==
    IF i >= Len(upvalues) THEN w
    ELSE emit_upvalues(
            emit_byte(emit_byte(w, IF At(upvalues, i).is_local THEN 1 ELSE 0), At(upvalues, i).index),
            upvalues, i + 1)

(* function() from begin_scope() to the brace that opens the body, when    *)
(* the function has no parameter.                                          *)
function_head(w) ==
    LET w1 == begin_scope(w)
        w2 == consume(w1, "TOKEN_LEFT_PAREN", "Expected '(' after function name.")
        w3 == consume(w2, "TOKEN_RIGHT_PAREN", "Expected ')' after parameters.")
    IN  consume(w3, "TOKEN_LEFT_BRACE", "Expected '{' before function body.")

function(w, type) ==
    LET w1 == begin_scope(init_compiler_(w, type))
        w2 == consume(w1, "TOKEN_LEFT_PAREN", "Expected '(' after function name.")
        w3 == IF ~check(w2, "TOKEN_RIGHT_PAREN") THEN function_params_(w2) ELSE w2
        w4 == consume(w3, "TOKEN_RIGHT_PAREN", "Expected ')' after parameters.")
        w5 == consume(w4, "TOKEN_LEFT_BRACE", "Expected '{' before function body.")
        w6 == block(w5)
    IN  CASE w1.ub -> w1
          [] w2.ub -> w2
          [] w3.ub -> w3
          [] w4.ub -> w4
          [] w5.ub -> w5
          [] w6.ub -> w6
          [] OTHER ->  IF w6.ub THEN w6
        ELSE LET compiler == Current(w6)
                 w7  == end_compiler_(w6)
                 fn  == w7.ret
                 w8  == make_constant(w7, OBJECT_VALUE(fn))
                 w9  == emit_bytes(w8, OP_CLOSURE, w8.ret)
             IN  CASE w7.ub -> w7
                   [] w8.ub -> w8
                   [] w9.ub -> w9
                   [] OTHER ->  IF w9.ub \/ ~Valid(w9, fn) THEN Undefined(w9)
                 ELSE emit_upvalues_(w9, SubSeq(compiler.upvalues, 1, w9.heap[fn].upvalue_count), 0)

method(w) ==
    LET w1 == consume(w, "TOKEN_IDENTIFIER", "Expected method name.")
        w2 == identifier_constant_(w1, w1.parser.previous.lexeme)
        constant == w2.ret
        type == IF w2.parser.previous.lexeme = init_chars THEN "TYPE_INITIALIZER" ELSE "TYPE_METHOD"
        w3 == function_(w2, type)
    IN  CASE w1.ub -> w1
          [] w2.ub -> w2
          [] w3.ub -> w3
          [] OTHER ->  emit_bytes(w3, OP_METHOD, constant)

variable(w, can_assign) == named_variable_(w, w.parser.previous.lexeme, can_assign)

var_declaration(w) ==
    LET w1 == parse_variable_(w, "Expected variable name.")
        global == w1.ret
        w2 == match(w1, "TOKEN_EQUAL")
        w3 == IF w2.ret THEN expression(w2) ELSE emit_byte(w2, OP_NIL)
        w4 == consume(w3, "TOKEN_SEMICOLON", "Expected ';' after variable declaration.")
    IN  CASE w1.ub -> w1
          [] w2.ub -> w2
          [] w3.ub -> w3
          [] w4.ub -> w4
          [] OTHER ->  define_variable(w4, global)

fun_declaration(w) ==
    LET w1 == parse_variable_(w, "Expected function name.")
        global == w1.ret
        w2 == function_(mark_initialized(w1), "TYPE_FUNCTION")
    IN  CASE w1.ub -> w1
          [] w2.ub -> w2
          [] OTHER ->  define_variable(w2, global)

RECURSIVE class_methods(_)
class_methods(w) ==
    IF ~w.ub /\ ~check(w, "TOKEN_RIGHT_BRACE") /\ ~check(w, "TOKEN_EOF")
    THEN LET w1 == method_(w) IN  CASE w1.ub -> w1
                                   [] OTHER -> class_methods(w1)
    ELSE w

(* `< Superclass`: w.ret is what match(TOKEN_LESS) returned. *)
class_superclass(w, class_name) ==
    IF w.ub \/ ~w.ret THEN w
    ELSE LET w1 == consume(w, "TOKEN_IDENTIFIER", "Expected superclass name.")
             w2 == variable(w1, FALSE)
             w3 == IF identifiers_equal(class_name, w2.parser.previous.lexeme)
                   THEN error(w2, "A class can't inherit from itself.") ELSE w2
             w4 == define_variable(add_local(begin_scope(w3), super_chars), 0)
             w5 == emit_byte(named_variable_(w4, class_name, FALSE), OP_INHERIT)
         IN  CASE w1.ub -> w1
               [] w2.ub -> w2
               [] w3.ub -> w3
               [] w4.ub -> w4
               [] w5.ub -> w5
               [] OTHER ->  [w5 EXCEPT !.cls[Len(w5.cls)].has_superclass = TRUE]

(* The class body, and the ClassCompiler popped. *)
class_body(w, class_name) ==
    LET w1 == named_variable_(w, class_name, FALSE)
        w2 == consume(w1, "TOKEN_LEFT_BRACE", "Expected '{' before class body.")
        w3 == class_methods_(w2)
        w4 == consume(w3, "TOKEN_RIGHT_BRACE", "Expected '}' after class body.")
        w5 == emit_byte(w4, OP_POP)
        w6 == IF w5.cls[Len(w5.cls)].has_superclass THEN end_scope(w5) ELSE w5
    IN  CASE w1.ub -> w1
          [] w2.ub -> w2
          [] w3.ub -> w3
          [] w4.ub -> w4
          [] w5.ub -> w5
          [] w6.ub -> w6
          [] OTHER ->  [w6 EXCEPT !.cls = SubSeq(w6.cls, 1, Len(w6.cls) - 1)]

(* The ClassCompiler of the class pushed on the chain. *)
class_compiler(w) ==
    [w EXCEPT !.cls = Append(w.cls, [name |-> w.parser.previous.lexeme,
                                     has_superclass |-> FALSE])]

class_named(w, class_name) ==
    LET w1 == identifier_constant_(w, class_name)
        w2 == emit_bytes(declare_variable(w1), OP_CLASS, w1.ret)
        w3 == class_compiler(define_variable(w2, w1.ret))
        w4 == class_superclass_(match(w3, "TOKEN_LESS"), class_name)
    IN  CASE w1.ub -> w1
          [] w2.ub -> w2
          [] w3.ub -> w3
          [] w4.ub -> w4
          [] OTHER ->  class_body_(w4, class_name)

class_declaration(w) ==
    LET w1 == consume(w, "TOKEN_IDENTIFIER", "Expected class name.")
    IN  CASE w1.ub -> w1
          [] OTHER ->  class_named_(w1, w1.parser.previous.lexeme)

get_rule(type) ==
    CASE type = "TOKEN_LEFT_PAREN"    -> [prefix |-> "grouping", infix |-> "call", precedence |-> PREC_CALL]
      [] type = "TOKEN_DOT"           -> [prefix |-> "NULL", infix |-> "dot", precedence |-> PREC_CALL]
      [] type = "TOKEN_MINUS"         -> [prefix |-> "unary", infix |-> "binary", precedence |-> PREC_TERM]
      [] type = "TOKEN_PLUS"          -> [prefix |-> "NULL", infix |-> "binary", precedence |-> PREC_TERM]
      [] type = "TOKEN_SLASH"         -> [prefix |-> "NULL", infix |-> "binary", precedence |-> PREC_FACTOR]
      [] type = "TOKEN_STAR"          -> [prefix |-> "NULL", infix |-> "binary", precedence |-> PREC_FACTOR]
      [] type = "TOKEN_PERCENT"       -> [prefix |-> "NULL", infix |-> "binary", precedence |-> PREC_FACTOR]
      [] type = "TOKEN_BANG"          -> [prefix |-> "unary", infix |-> "NULL", precedence |-> PREC_NONE]
      [] type = "TOKEN_BANG_EQUAL"    -> [prefix |-> "NULL", infix |-> "binary", precedence |-> PREC_EQUALITY]
      [] type = "TOKEN_EQUAL_EQUAL"   -> [prefix |-> "NULL", infix |-> "binary", precedence |-> PREC_EQUALITY]
      [] type = "TOKEN_GREATER"       -> [prefix |-> "NULL", infix |-> "binary", precedence |-> PREC_COMPARISON]
      [] type = "TOKEN_GREATER_EQUAL" -> [prefix |-> "NULL", infix |-> "binary", precedence |-> PREC_COMPARISON]
      [] type = "TOKEN_LESS"          -> [prefix |-> "NULL", infix |-> "binary", precedence |-> PREC_COMPARISON]
      [] type = "TOKEN_LESS_EQUAL"    -> [prefix |-> "NULL", infix |-> "binary", precedence |-> PREC_COMPARISON]
      [] type = "TOKEN_IDENTIFIER"    -> [prefix |-> "variable", infix |-> "NULL", precedence |-> PREC_NONE]
      [] type = "TOKEN_STRING"        -> [prefix |-> "string", infix |-> "NULL", precedence |-> PREC_NONE]
      [] type = "TOKEN_NUMBER"        -> [prefix |-> "number", infix |-> "and_", precedence |-> PREC_AND]
      [] type = "TOKEN_FALSE"         -> [prefix |-> "literal", infix |-> "NULL", precedence |-> PREC_NONE]
      [] type = "TOKEN_NIL"           -> [prefix |-> "literal", infix |-> "NULL", precedence |-> PREC_NONE]
      [] type = "TOKEN_OR"            -> [prefix |-> "NULL", infix |-> "or_", precedence |-> PREC_OR]
      [] type = "TOKEN_SUPER"         -> [prefix |-> "super_", infix |-> "NULL", precedence |-> PREC_NONE]
      [] type = "TOKEN_THIS"          -> [prefix |-> "this_", infix |-> "NULL", precedence |-> PREC_NONE]
      [] type = "TOKEN_TRUE"          -> [prefix |-> "literal", infix |-> "NULL", precedence |-> PREC_NONE]
      [] OTHER                        -> [prefix |-> "NULL", infix |-> "NULL", precedence |-> PREC_NONE]

binary(w, can_assign) ==
    LET op_type == w.parser.previous.type
        rule    == get_rule(op_type)
        w1      == parse_precedence_(w, rule.precedence + 1)
    IN  CASE w1.ub -> w1
          [] OTHER ->  CASE op_type = "TOKEN_PLUS"          -> emit_byte(w1, OP_ADD)
          [] op_type = "TOKEN_MINUS"         -> emit_byte(w1, OP_SUBTRACT)
          [] op_type = "TOKEN_STAR"          -> emit_byte(w1, OP_MULTIPLY)
          [] op_type = "TOKEN_SLASH"         -> emit_byte(w1, OP_DIVIDE)
          [] op_type = "TOKEN_PERCENT"       -> emit_byte(w1, OP_MODULO)
          [] op_type = "TOKEN_BANG_EQUAL"    -> emit_bytes(w1, OP_EQUAL, OP_NOT)
          [] op_type = "TOKEN_EQUAL_EQUAL"   -> emit_byte(w1, OP_EQUAL)
          [] op_type = "TOKEN_GREATER"       -> emit_byte(w1, OP_GREATER)
          [] op_type = "TOKEN_GREATER_EQUAL" -> emit_bytes(w1, OP_LESS, OP_NOT)
          [] op_type = "TOKEN_LESS"          -> emit_byte(w1, OP_LESS)
          [] op_type = "TOKEN_LESS_EQUAL"    -> emit_bytes(w1, OP_GREATER, OP_NOT)
          [] OTHER -> w1

call_expr(w, can_assign) ==
    LET w1 == argument_list(w) IN  CASE w1.ub -> w1
                                     [] OTHER -> emit_bytes(w1, OP_CALL, w1.ret)

dot(w, can_assign) ==
    LET w1 == consume(w, "TOKEN_IDENTIFIER", "Expected property name after '.'.")
        w2 == identifier_constant_(w1, w1.parser.previous.lexeme)
        name == w2.ret
        w3 == IF can_assign THEN match(w2, "TOKEN_EQUAL") ELSE Ret(w2, FALSE)
    IN  CASE w1.ub -> w1
          [] w2.ub -> w2
          [] w3.ub -> w3
          [] OTHER ->  IF w3.ret THEN LET w5 == expression(w3) IN  CASE w5.ub -> w5
                                                      [] OTHER -> emit_bytes(w5, OP_SET_PROPERTY, name)
        ELSE LET w4 == match(w3, "TOKEN_LEFT_PAREN") IN  CASE w4.ub -> w4
                                                           [] OTHER ->
             IF w4.ret
             THEN LET w5 == argument_list(w4)
                  IN  CASE w5.ub -> w5
                        [] OTHER ->  emit_byte(emit_bytes(w5, OP_INVOKE, name), w5.ret)
             ELSE emit_bytes(w4, OP_GET_PROPERTY, name)

unary(w, can_assign) ==
    LET operator_type == w.parser.previous.type
        w1 == parse_precedence_(w, PREC_UNARY)
    IN  CASE w1.ub -> w1
          [] OTHER ->  CASE operator_type = "TOKEN_BANG" -> emit_byte(w1, OP_NOT)
          [] operator_type = "TOKEN_MINUS" -> emit_byte(w1, OP_NEGATE)
          [] OTHER -> w1

(* strtod on the decimal digits of a number token. *)
RECURSIVE strtod_loop(_, _, _)
strtod_loop(chars, i, value) ==
    IF i >= Len(chars) \/ At(chars, i) < 48 \/ At(chars, i) > 57 THEN value
    ELSE strtod_loop(chars, i + 1, value * 10 + (At(chars, i) - 48))

strtod(chars) == strtod_loop_(chars, 0, 0)

number(w, can_assign) == emit_constant_(w, NUMBER_VALUE(strtod(w.parser.previous.lexeme)))

grouping(w, can_assign) ==
    LET w1 == expression(w)
    IN  CASE w1.ub -> w1
          [] OTHER ->  consume(w1, "TOKEN_RIGHT_PAREN", "Expected ')' after expression.")

literal(w, can_assign) ==
    CASE w.parser.previous.type = "TOKEN_FALSE" -> emit_byte(w, OP_FALSE)
      [] w.parser.previous.type = "TOKEN_TRUE" -> emit_byte(w, OP_TRUE)
      [] w.parser.previous.type = "TOKEN_NIL" -> emit_byte(w, OP_NIL)
      [] OTHER -> w

string(w, can_assign) ==
    LET lexeme == w.parser.previous.lexeme
        w1 == copy_string(w, SubSeq(lexeme, 2, Len(lexeme) - 1), Len(lexeme) - 2)
    IN  CASE w1.ub -> w1
          [] OTHER ->  IF w1.ub THEN w1 ELSE emit_constant_(w1, OBJECT_VALUE(w1.ret))

super_(w, can_assign) ==
    LET w1 == IF Len(w.cls) = 0 THEN error(w, "Can't use 'super' outside of class.")
              ELSE IF ~w.cls[Len(w.cls)].has_superclass
              THEN error(w, "Can't use 'super' in a class with no superclass.")
              ELSE w
        w2 == consume(w1, "TOKEN_DOT", "Expected '.' after 'super'.")
        w3 == consume(w2, "TOKEN_IDENTIFIER", "Expected superclass method name.")
        w4 == identifier_constant_(w3, w3.parser.previous.lexeme)
        name == w4.ret
        w5 == named_variable_(w4, this_chars, FALSE)
        w6 == match(w5, "TOKEN_LEFT_PAREN")
    IN  CASE w1.ub -> w1
          [] w2.ub -> w2
          [] w3.ub -> w3
          [] w4.ub -> w4
          [] w5.ub -> w5
          [] w6.ub -> w6
          [] OTHER ->  IF w6.ret
        THEN LET w7 == argument_list(w6)
                 arg_count == w7.ret
                 w8 == named_variable_(w7, super_chars, FALSE)
             IN  CASE w7.ub -> w7
                   [] w8.ub -> w8
                   [] OTHER ->  emit_byte(emit_bytes(w8, OP_SUPER_INVOKE, name), arg_count)
        ELSE emit_bytes(named_variable_(w6, super_chars, FALSE), OP_GET_SUPER, name)

this_(w, can_assign) ==
    IF Len(w.cls) = 0 THEN error(w, "Can't use 'this' outside of a class.")
    ELSE variable(w, FALSE)

(* A call through a ParseFn pointer of the rules table. *)
ParseFn(w, fn, can_assign) ==
    CASE fn = "grouping" -> grouping(w, can_assign)
      [] fn = "call"     -> call_expr_(w, can_assign)
      [] fn = "dot"      -> dot(w, can_assign)
      [] fn = "unary"    -> unary(w, can_assign)
      [] fn = "binary"   -> binary_(w, can_assign)
      [] fn = "variable" -> variable(w, can_assign)
      [] fn = "string"   -> string_(w, can_assign)
      [] fn = "number"   -> number(w, can_assign)
      [] fn = "and_"     -> and__(w, can_assign)
      [] fn = "or_"      -> or__(w, can_assign)
      [] fn = "literal"  -> literal(w, can_assign)
      [] fn = "super_"   -> super__(w, can_assign)
      [] fn = "this_"    -> this_(w, can_assign)
      [] OTHER           -> Undefined(w)

RECURSIVE parse_precedence_loop(_, _, _)
parse_precedence_loop(w, precedence, can_assign) ==
    IF ~w.ub /\ precedence <= get_rule(w.parser.current.type).precedence
    THEN LET w1 == advance(w)
             infix_rule == get_rule(w1.parser.previous.type).infix
         IN  CASE w1.ub -> w1
               [] OTHER ->  parse_precedence_loop(ParseFn_(w1, infix_rule, can_assign), precedence, can_assign)
    ELSE w

(* A parse_precedence that lets every operand take an `=`. *)
parse_precedence_any_target(w, precedence) ==
    LET w1 == advance(w)
        prefix_rule == get_rule(w1.parser.previous.type).prefix
    IN  IF prefix_rule = "NULL" THEN error(w1, "Expected expression.")
        ELSE LET w2 == ParseFn_(w1, prefix_rule, TRUE)
                 w3 == parse_precedence_loop_(w2, precedence, TRUE)
                 w4 == match(w3, "TOKEN_EQUAL")
             IN  IF w4.ret THEN error(w4, "Invalid assignment target.") ELSE w4

parse_precedence(w, precedence) ==
    LET w1 == advance(w)
        prefix_rule == get_rule(w1.parser.previous.type).prefix
    IN  CASE w1.ub -> w1
          [] OTHER ->  IF prefix_rule = "NULL" THEN error(w1, "Expected expression.")
        ELSE LET can_assign == precedence <= PREC_ASSIGNMENT
                 w2 == ParseFn_(w1, prefix_rule, can_assign)
                 w3 == parse_precedence_loop_(w2, precedence, can_assign)
                 w4 == IF can_assign THEN match(w3, "TOKEN_EQUAL") ELSE Ret(w3, FALSE)
             IN  CASE w2.ub -> w2
                   [] w3.ub -> w3
                   [] w4.ub -> w4
                   [] OTHER ->  IF w4.ret THEN error(w4, "Invalid assignment target.") ELSE w4

print_statement(w) ==
    LET w1 == expression(w)
    IN  CASE w1.ub -> w1
          [] OTHER ->  emit_byte(consume(w1, "TOKEN_SEMICOLON", "Expected ';' after value."), OP_PRINT)

return_statement(w) ==
    LET w1 == IF Current(w).type = "TYPE_SCRIPT"
              THEN error(w, "Can't return from top-level code.") ELSE w
        w2 == match(w1, "TOKEN_SEMICOLON")
    IN  CASE w1.ub -> w1
          [] w2.ub -> w2
          [] OTHER ->  IF w2.ret THEN emit_return(w2)
        ELSE LET w3 == IF Current(w2).type = "TYPE_INITIALIZER"
                       THEN error(w2, "Can't return from an initializer.") ELSE w2
                 w4 == expression(w3)
                 w5 == consume(w4, "TOKEN_SEMICOLON", "Expected ';' after return value.")
             IN  CASE w3.ub -> w3
                   [] w4.ub -> w4
                   [] w5.ub -> w5
                   [] OTHER ->  emit_byte(w5, OP_RETURN)

expression_statement(w) ==
    LET w1 == expression(w)
    IN  CASE w1.ub -> w1
          [] OTHER ->  emit_byte(consume(w1, "TOKEN_SEMICOLON", "Expected ';' after expression."), OP_POP)

if_statement(w) ==
    LET w1 == consume(w, "TOKEN_LEFT_PAREN", "Expected '(' after 'if'.")
        w2 == expression(w1)
        w3 == consume(w2, "TOKEN_RIGHT_PAREN", "Expected ')' after condition.")
        w4 == emit_jump(w3, OP_JUMP_IF_FALSE)
        then_jump == w4.ret
        w5 == emit_byte(w4, OP_POP)
        w6 == statement_(w5)
        w7 == emit_jump(w6, OP_JUMP)
        else_jump == w7.ret
        w8 == patch_jump_(w7, then_jump)
        w9 == emit_byte(w8, OP_POP)
        w10 == match(w9, "TOKEN_ELSE")
        w11 == IF w10.ret THEN statement_(w10) ELSE w10
    IN  CASE w1.ub -> w1
          [] w2.ub -> w2
          [] w3.ub -> w3
          [] w4.ub -> w4
          [] w5.ub -> w5
          [] w6.ub -> w6
          [] w7.ub -> w7
          [] w8.ub -> w8
          [] w9.ub -> w9
          [] w10.ub -> w10
          [] w11.ub -> w11
          [] OTHER ->  patch_jump_(w11, else_jump)

while_statement(w) ==
    LET loop_start == current_chunk(w).count
        w1 == consume(w, "TOKEN_LEFT_PAREN", "Expected '(' after 'while'.")
        w2 == expression(w1)
        w3 == consume(w2, "TOKEN_RIGHT_PAREN", "Expected ')' after condition.")
        w4 == emit_jump(w3, OP_JUMP_IF_FALSE)
        exit_jump == w4.ret
        w5 == emit_byte(w4, OP_POP)
        w6 == statement_(w5)
        w7 == emit_loop_(w6, loop_start)
        w8 == patch_jump_(w7, exit_jump)
    IN  CASE w1.ub -> w1
          [] w2.ub -> w2
          [] w3.ub -> w3
          [] w4.ub -> w4
          [] w5.ub -> w5
          [] w6.ub -> w6
          [] w7.ub -> w7
          [] w8.ub -> w8
          [] OTHER ->  emit_byte(w8, OP_POP)

(* if_statement() up to the brace that opens the block of the branch:     *)
(* w.ret is then_jump.                                                     *)
if_head(w) ==
    LET w1 == consume(w, "TOKEN_LEFT_PAREN", "Expected '(' after 'if'.")
        w2 == expression(w1)
        w3 == consume(w2, "TOKEN_RIGHT_PAREN", "Expected ')' after condition.")
        w4 == emit_jump(w3, OP_JUMP_IF_FALSE)
        w5 == emit_byte(w4, OP_POP)
    IN  Ret(begin_scope(match(w5, "TOKEN_LEFT_BRACE")), w4.ret)

(* if_statement() from the brace that ends the block of the branch, when   *)
(* no else follows.                                                        *)
if_tail(w, then_jump) ==
    LET w1 == end_scope(consume(w, "TOKEN_RIGHT_BRACE", "Expected '}' after block."))
        w2 == emit_jump(w1, OP_JUMP)
        else_jump == w2.ret
        w3 == patch_jump_(w2, then_jump)
        w4 == emit_byte(w3, OP_POP)
        w5 == match(w4, "TOKEN_ELSE")
    IN  patch_jump_(w5, else_jump)

(* while_statement() up to the brace that opens the block of the body:     *)
(* w.ret is <<loop_start, exit_jump>>.                                     *)
while_head(w) ==
    LET loop_start == current_chunk(w).count
        w1 == consume(w, "TOKEN_LEFT_PAREN", "Expected '(' after 'while'.")
        w2 == expression(w1)
        w3 == consume(w2, "TOKEN_RIGHT_PAREN", "Expected ')' after condition.")
        w4 == emit_jump(w3, OP_JUMP_IF_FALSE)
        w5 == emit_byte(w4, OP_POP)
    IN  Ret(begin_scope(match(w5, "TOKEN_LEFT_BRACE")), <<loop_start, w4.ret>>)

(* while_statement() from the brace that ends the block of the body. *)
while_tail(w, loop_start, exit_jump) ==
    LET w1 == end_scope(consume(w, "TOKEN_RIGHT_BRACE", "Expected '}' after block."))
        w2 == emit_loop_(w1, loop_start)
        w3 == patch_jump_(w2, exit_jump)
    IN  emit_byte(w3, OP_POP)

(* compile() on a line that starts with `if (...) {` or `while (...) {`,   *)
(* up to the first statement of the block.                                 *)
compile_head(w, source) ==
    LET w0 == [w EXCEPT !.parser.toks = source, !.parser.pos = 1]
        w1 == init_compiler_(w0, "TYPE_SCRIPT")
        w2 == advance([w1 EXCEPT !.parser.hadError = FALSE, !.parser.panicMode = FALSE])
    IN  IF check(w2, "TOKEN_IF") THEN if_head(match(w2, "TOKEN_IF"))
        ELSE while_head(match(w2, "TOKEN_WHILE"))

for_initializer(w) ==
    CASE w.ub -> w
      [] check(w, "TOKEN_SEMICOLON") -> match(w, "TOKEN_SEMICOLON")
      [] check(w, "TOKEN_VAR")       -> var_declaration_(match(w, "TOKEN_VAR"))
      [] OTHER -> expression_statement(w)

(* The condition clause: w.ret is exit_jump. *)
for_condition(w) ==
    IF w.ub \/ check(w, "TOKEN_SEMICOLON") THEN Ret(match(w, "TOKEN_SEMICOLON"), -1)
    ELSE LET w1 == expression(w)
             w2 == consume(w1, "TOKEN_SEMICOLON", "Expected ';' after loop condition.")
             w3 == emit_jump(w2, OP_JUMP_IF_FALSE)
         IN  CASE w1.ub -> w1
               [] w2.ub -> w2
               [] w3.ub -> w3
               [] OTHER ->  Ret(emit_byte(w3, OP_POP), w3.ret)

(* The increment clause: w.ret is loop_start. *)
for_increment(w, loop_start) ==
    IF w.ub \/ check(w, "TOKEN_RIGHT_PAREN") THEN Ret(match(w, "TOKEN_RIGHT_PAREN"), loop_start)
    ELSE LET w1 == emit_jump(w, OP_JUMP)
             w2 == expression(w1)
             w3 == consume(emit_byte(w2, OP_POP), "TOKEN_RIGHT_PAREN",
                           "Expected ')' after for clauses.")
             w4 == emit_loop_(w3, loop_start)
         IN  CASE w1.ub -> w1
               [] w2.ub -> w2
               [] w3.ub -> w3
               [] w4.ub -> w4
               [] OTHER ->  Ret(patch_jump_(w4, w1.ret), current_chunk(w1).count)

(* The body, the loop back and the exit of the loop. *)
for_body(w, exit_jump) ==
    LET w1 == statement_(w)
        w2 == emit_loop_(w1, w.ret)
    IN  CASE w1.ub -> w1
          [] w2.ub -> w2
          [] OTHER ->  end_scope(IF exit_jump # -1
                  THEN emit_byte(patch_jump_(w2, exit_jump), OP_POP)
                  ELSE w2)

for_statement(w) ==
    LET w1 == consume(begin_scope(w), "TOKEN_LEFT_PAREN", "Expected '(' after 'for'.")
        w2 == for_initializer_(w1)
        w3 == for_condition_(w2)
        w4 == for_increment_(w3, current_chunk(w2).count)
    IN  CASE w1.ub -> w1
          [] w2.ub -> w2
          [] w3.ub -> w3
          [] w4.ub -> w4
          [] OTHER ->  for_body(w4, w3.ret)

RECURSIVE synchronize_loop(_)
synchronize_loop(w) ==
    IF w.parser.current.type = "TOKEN_EOF" THEN w
    ELSE IF w.parser.current.type \in
              {"TOKEN_SEMICOLON", "TOKEN_CLASS", "TOKEN_FUN", "TOKEN_VAR", "TOKEN_FOR",
               "TOKEN_IF", "TOKEN_WHILE", "TOKEN_PRINT", "TOKEN_RETURN"} THEN w
    ELSE synchronize_loop(advance(w))

synchronize(w) == synchronize_loop_([w EXCEPT !.parser.panicMode = FALSE])

(* if (match(T)) ... else if (match(U)) ...: the first token type that the *)
(* current token has is consumed; match() of another type changes nothing. *)
statement(w) ==
    CASE w.ub -> w
      [] check(w, "TOKEN_PRINT")      -> print_statement(match(w, "TOKEN_PRINT"))
      [] check(w, "TOKEN_FOR")        -> for_statement_(match(w, "TOKEN_FOR"))
      [] check(w, "TOKEN_IF")         -> if_statement_(match(w, "TOKEN_IF"))
      [] check(w, "TOKEN_RETURN")     -> return_statement_(match(w, "TOKEN_RETURN"))
      [] check(w, "TOKEN_WHILE")      -> while_statement_(match(w, "TOKEN_WHILE"))
      [] check(w, "TOKEN_LEFT_BRACE") ->
            LET w1 == block(begin_scope(match(w, "TOKEN_LEFT_BRACE"))) IN  IF w1.ub THEN w1 ELSE end_scope(w1)
      [] OTHER -> expression_statement(w)

declaration(w) ==
    LET w1 == CASE w.ub -> w
                [] check(w, "TOKEN_CLASS") -> class_declaration(match(w, "TOKEN_CLASS"))
                [] check(w, "TOKEN_FUN")   -> fun_declaration_(match(w, "TOKEN_FUN"))
                [] check(w, "TOKEN_VAR")   -> var_declaration_(match(w, "TOKEN_VAR"))
                [] OTHER -> statement_(w)
    IN  IF w1.ub THEN w1 ELSE  IF w1.parser.panicMode THEN synchronize(w1) ELSE w1

RECURSIVE compile_loop(_)
compile_loop(w) ==
    IF w.ub \/ check(w, "TOKEN_EOF") THEN match(w, "TOKEN_EOF")
    ELSE LET w1 == declaration_(w) IN  CASE w1.ub -> w1
                                        [] OTHER -> compile_loop(w1)

(* compile that returns the function also when parser.hadError is set. *)
compile_returns_function(w, source) ==
    LET w0 == [w EXCEPT !.parser.toks = source, !.parser.pos = 1]
        w1 == init_compiler_(w0, "TYPE_SCRIPT")
        w2 == [w1 EXCEPT !.parser.hadError = FALSE, !.parser.panicMode = FALSE]
        w3 == compile_loop_(advance(w2))
    IN  end_compiler_(w3)

(* compile: w.ret is the function, or NULL after an error.  init_scanner   *)
(* is the start of the token sequence.                                     *)
compile(w, source) ==
    LET w0 == [w EXCEPT !.parser.toks = source, !.parser.pos = 1]
        w1 == init_compiler_(w0, "TYPE_SCRIPT")
        w2 == [w1 EXCEPT !.parser.hadError = FALSE, !.parser.panicMode = FALSE]
        w3 == compile_loop_(advance(w2))
        w4 == end_compiler_(w3)
    IN  CASE w0.ub -> w0
          [] w1.ub -> w1
          [] w2.ub -> w2
          [] w3.ub -> w3
          [] w4.ub -> w4
          [] OTHER ->  IF w4.ub THEN Ret(w4, NULL)
        ELSE Ret(w4, IF w4.parser.hadError THEN NULL ELSE w4.ret)

(***************************************************************************)
(* Printing (value.c, object.c).  Text is a sequence of character codes.   *)
(* The model's numbers are the integers.                                   *)
(***************************************************************************)
RECURSIVE Digits(_)
Digits(n) == IF n < 10 THEN <<48 + n>> ELSE Append(Digits(n \div 10), 48 + (n % 10))

RECURSIVE Log10(_)
Log10(n) == IF n < 10 THEN 0 ELSE 1 + Log10(n \div 10)

RECURSIVE Pow10(_)
Pow10(k) == IF k = 0 THEN 1 ELSE 10 * Pow10(k - 1)

RECURSIVE StripZeros(_)
StripZeros(digits) ==
    IF Len(digits) > 1 /\ digits[Len(digits)] = 48
    THEN StripZeros(SubSeq(digits, 1, Len(digits) - 1))
    ELSE digits

(* printf("%g") of an integer: six significant digits, the exponent form   *)
(* from 1e+06 on.                                                          *)
FormatG(n) ==
    LET a    == IF n < 0 THEN -n ELSE n
        sign == IF n < 0 THEN <<45>> ELSE <<>>
        x    == Log10_(a)
    IN  IF x < 6 THEN sign \o Digits_(a)
        ELSE LET scale == Pow10_(x - 5)
                 q     == a \div scale
                 r     == a % scale
                 m0    == IF 2 * r > scale \/ (2 * r = scale /\ q % 2 = 1) THEN q + 1 ELSE q
                 m     == IF m0 = 1000000 THEN 100000 ELSE m0
                 e     == IF m0 = 1000000 THEN x + 1 ELSE x
                 d     == StripZeros_(Digits_(m))
                 mant  == IF Len(d) = 1 THEN d ELSE <<d[1], 46>> \o Tail(d)
                 exp   == IF e < 10 THEN <<48>> \o Digits_(e) ELSE Digits_(e)
             IN  CASE m0.ub -> m0
                   [] m.ub -> m
                   [] OTHER ->  sign \o mant \o <<101, 43>> \o exp

(* What printing through a dangling pointer writes is not defined. *)
BadText == <<-1>>

(* print_function: the text, or BadText on a dangling pointer. *)
print_function(w, fn) ==
    IF ~Valid(w, fn) THEN BadText
    ELSE IF w.heap[fn].name = NULL THEN <<60, 115, 99, 114, 105, 112, 116, 62>>
    ELSE IF ~Valid(w, w.heap[fn].name) THEN BadText
    ELSE <<60, 102, 110, 32>> \o w.heap[w.heap[fn].name].chars \o <<62>>

print_object(w, value) ==
    LET o == AS_OBJECT(value) IN
    IF ~Valid(w, o) THEN BadText
    ELSE LET obj == w.heap[o] IN
    CASE obj.type = "OBJECT_INSTANCE" ->
            IF Valid(w, obj.klass) /\ Valid(w, w.heap[obj.klass].name)
            THEN <<60, 105, 110, 115, 116, 97, 110, 99, 101, 32, 111, 102, 32>> \o w.heap[w.heap[obj.klass].name].chars \o <<62>>
            ELSE BadText
      [] obj.type = "OBJECT_FUNCTION" -> print_function(w, o)
      [] obj.type = "OBJECT_BOUND_METHOD" ->
            IF Valid(w, obj.method) THEN print_function(w, w.heap[obj.method].function)
            ELSE BadText
      [] obj.type = "OBJECT_CLOSURE" -> print_function(w, obj.function)
      [] obj.type = "OBJECT_CLASS" ->
            IF Valid(w, obj.name) THEN <<60, 99, 108, 97, 115, 115, 32>> \o w.heap[obj.name].chars \o <<62>>
            ELSE BadText
      [] obj.type = "OBJECT_UPVALUE" -> <<117, 112, 118, 97, 108, 117, 101>>
      [] obj.type = "OBJECT_NATIVE" -> <<60, 110, 97, 116, 105, 118, 101, 32, 102, 110, 62>>
      [] obj.type = "OBJECT_STRING" -> obj.chars
      [] OTHER -> <<85, 78, 75, 78, 79, 87, 78, 95, 79, 66, 74, 69, 67, 84>>

(* print_value: the text printf writes. *)
print_value(w, value) ==
    CASE value.t = "nil" -> <<110, 105, 108>>
      [] value.t = "bool" -> IF AS_BOOL(value) THEN <<116, 114, 117, 101>> ELSE <<102, 97, 108, 115, 101>>
      [] value.t = "number" -> FormatG_(AS_NUMBER(value))
      [] value.t = "object" -> print_object_(w, value)

(***************************************************************************)
(* The virtual machine (vm.c).  A CallFrame is [closure, ip, slots]: ip is *)
(* the offset into the code of the closure's fn, slots the offset of *)
(* the frame's first slot from vm.stack.                                   *)
(***************************************************************************)
clock_native(w, arg_count, args) == NUMBER_VALUE(w.clock)

RECURSIVE runtime_error_loop(_, _)
runtime_error_loop(w, i) ==
    IF i < 0 THEN w
    ELSE LET frame == At(w.vm.frames, i) IN
         IF ~Valid(w, frame.closure) THEN Undefined(w)
         ELSE LET fn == w.heap[frame.closure].function IN
              IF ~Valid(w, fn) THEN Undefined(w)
              ELSE IF w.heap[fn].name # NULL /\ ~Valid(w, w.heap[fn].name)
              THEN Undefined(w)
              ELSE runtime_error_loop(w, i - 1)

runtime_error(w, format) ==
    LET w1 == [w EXCEPT !.errs = Append(w.errs, format)]
        w2 == runtime_error_loop_(w1, w1.vm.frame_count - 1)
    IN  CASE w1.ub -> w1
          [] w2.ub -> w2
          [] OTHER ->  reset_stack(w2)

define_native(w, name, fn) ==
    LET w1 == copy_string(w, name, Len(name))
        w2 == stack_push(w1, OBJECT_VALUE(w1.ret))
        w3 == new_native(w2, fn)
        w4 == stack_push(w3, OBJECT_VALUE(w3.ret))
        w5 == table_set_(w4, TABLE_GLOBALS, AS_OBJECT(StackRead(w4, 0)), StackRead(w4, 1))
    IN  CASE w1.ub -> w1
          [] w2.ub -> w2
          [] w3.ub -> w3
          [] w4.ub -> w4
          [] w5.ub -> w5
          [] OTHER ->  stack_pop(stack_pop(w5))

(* call: w.ret is whether the frame was pushed. *)
call(w, closure, arg_count) ==
    IF w.ub \/ ~is_object_type(w, OBJECT_VALUE(closure), "OBJECT_CLOSURE")
    THEN Undefined(Ret(w, FALSE))
    ELSE LET fn == w.heap[closure].function IN
    IF ~Valid(w, fn) THEN Undefined(Ret(w, FALSE))
    ELSE IF arg_count # w.heap[fn].arity
    THEN Ret(runtime_error(w, "Expected %d arguments but got %d instead."), FALSE)
    ELSE IF w.vm.frame_count = FRAMES_MAX
    THEN Ret(runtime_error(w, "Stack overflow."), FALSE)
    ELSE LET frame == [closure |-> closure,
                       slots   |-> w.vm.stack_top - arg_count - 1,
                       ip      |-> 0]
             n     == w.vm.frame_count
         IN  Ret([w EXCEPT !.vm.frames = IF n < Len(w.vm.frames)
                                         THEN SetAt(w.vm.frames, n, frame)
                                         ELSE Append(w.vm.frames, frame),
                           !.vm.frame_count = n + 1], TRUE)

(* call_value: w.ret is the bool returned. *)
call_value(w, callee, arg_count) ==
    IF w.ub \/ Dangling(w, callee) THEN Undefined(Ret(w, FALSE))
    ELSE IF IS_OBJECT(callee) /\ w.heap[AS_OBJECT(callee)].type = "OBJECT_BOUND_METHOD"
    THEN LET bound == w.heap[AS_OBJECT(callee)]
             w1    == StackWrite(w, w.vm.stack_top - arg_count - 1, bound.reciever)
         IN  CASE w1.ub -> w1
               [] OTHER ->  call_(w1, bound.method, arg_count)
    ELSE IF IS_OBJECT(callee) /\ w.heap[AS_OBJECT(callee)].type = "OBJECT_CLASS"
    THEN LET klass == AS_OBJECT(callee)
             w1    == new_instance(w, klass)
             w2    == StackWrite(w1, w1.vm.stack_top - arg_count - 1, OBJECT_VALUE(w1.ret))
             w3    == table_get_(w2, TableMethods(klass), w2.vm.init_string)
         IN  CASE w1.ub -> w1
               [] w2.ub -> w2
               [] w3.ub -> w3
               [] OTHER ->  IF w3.ub THEN Ret(w3, FALSE)
             ELSE IF w3.ret.found THEN call_(w3, AS_OBJECT(w3.ret.value), arg_count)
             ELSE IF arg_count # 0
             THEN Ret(runtime_error(w3, "Expected 0 arguments but got %d."), TRUE)
             ELSE Ret(w3, TRUE)
    ELSE IF IS_OBJECT(callee) /\ w.heap[AS_OBJECT(callee)].type = "OBJECT_CLOSURE"
    THEN call_(w, AS_OBJECT(callee), arg_count)
    ELSE IF IS_OBJECT(callee) /\ w.heap[AS_OBJECT(callee)].type = "OBJECT_NATIVE"
    THEN LET value == clock_native(w, arg_count, w.vm.stack_top - arg_count)
             w1    == [w EXCEPT !.vm.stack_top = w.vm.stack_top - (arg_count + 1)]
         IN  CASE w1.ub -> w1
               [] OTHER ->  Ret(stack_push(w1, value), TRUE)
    ELSE Ret(runtime_error(w, "You can only call functions and classes."), FALSE)

invoke_from_class(w, klass, name, arg_count) ==
    IF w.ub \/ ~is_object_type(w, OBJECT_VALUE(klass), "OBJECT_CLASS")
    THEN Undefined(Ret(w, FALSE))
    ELSE LET w1 == table_get_(w, TableMethods(klass), name) IN  CASE w1.ub -> w1
                                                                 [] OTHER ->
         IF w1.ub THEN Ret(w1, FALSE)
         ELSE IF ~w1.ret.found
         THEN Ret(runtime_error(w1, "Undefined property '%s'."), FALSE)
         ELSE call_(w1, AS_OBJECT(w1.ret.value), arg_count)

(* An invoke that looks for the name among the methods only. *)
invoke_methods_only(w, name, arg_count) ==
    LET reciever == peek(w, arg_count) IN
    IF Dangling(w, reciever) THEN Undefined(Ret(w, FALSE))
    ELSE IF ~IS_INSTANCE(w, reciever)
    THEN Ret(runtime_error(w, "Only instances have methods."), FALSE)
    ELSE invoke_from_class_(w, w.heap[AS_OBJECT(reciever)].klass, name, arg_count)

invoke(w, name, arg_count) ==
    LET reciever == peek(w, arg_count) IN
    IF Dangling(w, reciever) THEN Undefined(Ret(w, FALSE))
    ELSE IF ~IS_INSTANCE(w, reciever)
    THEN Ret(runtime_error(w, "Only instances have methods."), FALSE)
    ELSE LET instance == AS_OBJECT(reciever)
             w1       == table_get_(w, TableFields(instance), name)
         IN  CASE w1.ub -> w1
               [] OTHER ->  IF w1.ub THEN Ret(w1, FALSE)
             ELSE IF w1.ret.found
             THEN call_value_(StackWrite(w1, w1.vm.stack_top - arg_count - 1, w1.ret.value),
                             w1.ret.value, arg_count)
             ELSE invoke_from_class_(w1, w1.heap[instance].klass, name, arg_count)

bind_method(w, klass, name) ==
    IF w.ub \/ ~is_object_type(w, OBJECT_VALUE(klass), "OBJECT_CLASS")
    THEN Undefined(Ret(w, FALSE))
    ELSE LET w1 == table_get_(w, TableMethods(klass), name) IN  CASE w1.ub -> w1
                                                                 [] OTHER ->
         IF w1.ub THEN Ret(w1, FALSE)
         ELSE IF ~w1.ret.found
         THEN Ret(runtime_error(w1, "Undefined property '%s'."), FALSE)
         ELSE LET w2 == new_bound_method(w1, peek(w1, 0), AS_OBJECT(w1.ret.value))
              IN  CASE w2.ub -> w2
                    [] OTHER ->  Ret(stack_push(stack_pop(w2), OBJECT_VALUE(w2.ret)), TRUE)

(* The open upvalues are the list vm.open_upvalues links through `next`,   *)
(* head first.                                                             *)
RECURSIVE capture_upvalue_loop(_, _, _)
capture_upvalue_loop(w, local, i) ==
    IF i < Len(w.vm.open_upvalues)
       /\ w.heap[At(w.vm.open_upvalues, i)].location.slot > local
    THEN capture_upvalue_loop(w, local, i + 1)
    ELSE i

(* capture_upvalue that never reuses an open upvalue of the slot. *)
capture_upvalue_fresh(w, local) ==
    LET i    == capture_upvalue_loop_(w, local, 0)
        list == w.vm.open_upvalues
        w1   == new_upvalue(w, local)
    IN  Ret([w1 EXCEPT !.vm.open_upvalues =
                SubSeq(list, 1, i) \o <<w1.ret>> \o SubSeq(list, i + 1, Len(list))], w1.ret)

(* capture_upvalue: w.ret is the upvalue for the stack slot `local`. *)
(* A capture that links every new upvalue at the head of the open list. *)
capture_upvalue_at_head(w, local) ==
    LET i    == capture_upvalue_loop_(w, local, 0)
        list == w.vm.open_upvalues
    IN  IF i < Len(list) /\ w.heap[At(list, i)].location.slot = local
        THEN Ret(w, At(list, i))
        ELSE LET w1 == new_upvalue(w, local)
             IN  CASE w1.ub -> w1
                   [] OTHER ->  Ret([w1 EXCEPT !.vm.open_upvalues = <<w1.ret>> \o list], w1.ret)

capture_upvalue(w, local) ==
    LET i    == capture_upvalue_loop_(w, local, 0)
        list == w.vm.open_upvalues
    IN  IF i < Len(list) /\ w.heap[At(list, i)].location.slot = local
        THEN Ret(w, At(list, i))
        ELSE LET w1 == new_upvalue(w, local)
                 created_upvalue == w1.ret
             IN  CASE w1.ub -> w1
                   [] OTHER ->  Ret([w1 EXCEPT !.vm.open_upvalues =
                          SubSeq(list, 1, i) \o <<created_upvalue>> \o SubSeq(list, i + 1, Len(list))],
                     created_upvalue)

(* close_upvalues that does not compare the location with `last`. *)
RECURSIVE close_upvalues_any(_, _)
close_upvalues_any(w, last) ==
    IF Len(w.vm.open_upvalues) > 0
    THEN LET upvalue == Head(w.vm.open_upvalues)
             value   == StackRead(w, w.heap[upvalue].location.slot)
         IN  close_upvalues_any([w EXCEPT !.heap[upvalue].closed = value,
                                          !.heap[upvalue].location = [own |-> TRUE, slot |-> 0],
                                          !.vm.open_upvalues = Tail(w.vm.open_upvalues)],
                                last)
    ELSE w

RECURSIVE close_upvalues(_, _)
close_upvalues(w, last) ==
    IF Len(w.vm.open_upvalues) > 0 /\ w.heap[Head(w.vm.open_upvalues)].location.slot >= last
    THEN LET upvalue == Head(w.vm.open_upvalues)
             value   == StackRead(w, w.heap[upvalue].location.slot)
         IN  close_upvalues([w EXCEPT !.heap[upvalue].closed = value,
                                      !.heap[upvalue].location = [own |-> TRUE, slot |-> 0],
                                      !.vm.open_upvalues = Tail(w.vm.open_upvalues)],
                            last)
    ELSE w

define_method(w, name) ==
    LET mth    == peek(w, 0)
        klass  == peek(w, 1)
    IN  IF ~IS_CLASS(w, klass) THEN Undefined(w)
        ELSE stack_pop(table_set_(w, TableMethods(AS_OBJECT(klass)), name, mth))

concatenate(w) ==
    LET b      == w.heap[AS_OBJECT(peek(w, 0))]
        a      == w.heap[AS_OBJECT(peek(w, 1))]
        length == a.length + b.length
        w1     == reallocate_(w, 0, length + 1)
        chars  == a.chars \o b.chars
        w2     == take_string(w1, chars, length)
    IN  CASE w1.ub -> w1
          [] w2.ub -> w2
          [] OTHER ->  IF w2.ub THEN w2
        ELSE stack_push(stack_pop(stack_pop(w2)), OBJECT_VALUE(w2.ret))

(***************************************************************************)
(* run(): one turn of the dispatch loop.  `frame` is the top CallFrame.    *)
(* A read through a pointer that is NULL, dangling or out of the bounds of *)
(* its array is undefined behaviour.                                       *)
(***************************************************************************)
CurrentFrame(w) == At(w.vm.frames, w.vm.frame_count - 1)

FrameValid(w) ==
    /\ w.vm.frame_count >= 1
    /\ is_object_type(w, OBJECT_VALUE(CurrentFrame(w).closure), "OBJECT_CLOSURE")
    /\ Valid(w, w.heap[CurrentFrame(w).closure].function)

FrameChunk(w) == w.heap[w.heap[CurrentFrame(w).closure].function].chunk

(* READ_BYTE: w.ret is the byte. *)
READ_BYTE(w) ==
    IF w.ub \/ ~FrameValid(w) THEN Undefined(Ret(w, 0))
    ELSE LET frame == CurrentFrame(w)
             chunk == FrameChunk(w)
         IN  IF frame.ip < 0 \/ frame.ip >= chunk.count THEN Undefined(Ret(w, 0))
             ELSE Ret([w EXCEPT !.vm.frames[w.vm.frame_count].ip = frame.ip + 1],
                      At(chunk.code, frame.ip))

READ_SHORT(w) ==
    LET w1 == READ_BYTE_(w)
        w2 == READ_BYTE_(w1)
    IN  CASE w1.ub -> w1
          [] w2.ub -> w2
          [] OTHER ->  Ret(w2, (w1.ret * 256 + w2.ret) % 65536)

READ_CONSTANT(w) ==
    LET w1 == READ_BYTE_(w) IN  CASE w1.ub -> w1
                                 [] OTHER ->
    IF w1.ub THEN Ret(w1, NIL_VALUE)
    ELSE IF w1.ret >= FrameChunk(w1).constants.count THEN Undefined(Ret(w1, NIL_VALUE))
    ELSE Ret(w1, At(FrameChunk(w1).constants.values, w1.ret))

(* READ_STRING: w.ret is the ObjectString. *)
READ_STRING(w) ==
    LET w1 == READ_CONSTANT(w) IN  CASE w1.ub -> w1
                                     [] OTHER ->
    IF w1.ub \/ ~IS_STRING(w1, w1.ret) THEN Undefined(Ret(w1, NULL))
    ELSE Ret(w1, AS_OBJECT(w1.ret))

Continue(w) == Ret(w, "CONTINUE")

RuntimeError(w, format) == Ret(runtime_error(w, format), "INTERPRET_RUNTIME_ERROR")

Abs(a) == IF a < 0 THEN -a ELSE a

(* a % b on int: the sign of the dividend. *)
IntRemainder(a, b) == IF a < 0 THEN -(Abs(a) % Abs(b)) ELSE a % Abs(b)

Quotient(a, b) == IF (a < 0) = (b < 0) THEN Abs(a) \div Abs(b) ELSE -(Abs(a) \div Abs(b))

BINARY_OP(w, op) ==
    IF ~IS_NUMBER(peek(w, 0)) \/ ~IS_NUMBER(peek(w, 1))
    THEN RuntimeError(w, "Operands must be numbers.")
    ELSE LET b  == AS_NUMBER(peek(w, 0))
             a  == AS_NUMBER(peek(w, 1))
             w1 == stack_pop(stack_pop(w))
         IN  CASE w1.ub -> w1
               [] OTHER ->  CASE op = "-" -> Continue(stack_push(w1, NUMBER_VALUE(a - b)))
               [] op = "*" -> Continue(stack_push(w1, NUMBER_VALUE(a * b)))
               [] op = "/" -> IF b # 0 /\ Abs(a) % Abs(b) = 0
                              THEN Continue(stack_push(w1, NUMBER_VALUE(Quotient(a, b))))
                              ELSE Ret(w1, "NOT_AN_INTEGER")
               [] op = ">" -> Continue(stack_push(w1, BOOL_VALUE(a > b)))
               [] op = "<" -> Continue(stack_push(w1, BOOL_VALUE(a < b)))

(* *closure->upvalues[slot]->location, read and written. *)
UpvalueValid(w, closure, slot) ==
    /\ slot < w.heap[closure].upvalue_count
    /\ is_object_type(w, OBJECT_VALUE(At(w.heap[closure].upvalues, slot)), "OBJECT_UPVALUE")

UpvalueRead(w, upvalue) ==
    IF w.heap[upvalue].location.own THEN w.heap[upvalue].closed
    ELSE StackRead(w, w.heap[upvalue].location.slot)

UpvalueWrite(w, upvalue, value) ==
    IF w.heap[upvalue].location.own THEN [w EXCEPT !.heap[upvalue].closed = value]
    ELSE StackWrite(w, w.heap[upvalue].location.slot, value)

(* An OP_CLOSURE loop that captures the locals and leaves their entries   *)
(* of the closure's array as new_closure() set them.                       *)
RECURSIVE closure_upvalues_loop_leaves_null(_, _, _)
closure_upvalues_loop_leaves_null(w, closure, i) ==
    IF w.ub \/ ~Valid(w, closure) THEN Undefined(w)
    ELSE IF i >= w.heap[closure].upvalue_count THEN w
    ELSE LET w1       == READ_BYTE_(w)
             is_local == w1.ret
             w2       == READ_BYTE_(w1)
             index    == w2.ret
             frame    == CurrentFrame(w2)
         IN  CASE w1.ub -> w1
               [] w2.ub -> w2
               [] OTHER ->
             IF is_local # 0
             THEN LET w3 == capture_upvalue_(w2, frame.slots + index)
                  IN  CASE w3.ub -> w3
                        [] OTHER -> closure_upvalues_loop_leaves_null(w3, closure, i + 1)
             ELSE IF index >= w2.heap[frame.closure].upvalue_count THEN Undefined(w2)
             ELSE closure_upvalues_loop_leaves_null(
                      [w2 EXCEPT !.heap[closure].upvalues[i + 1] =
                                      At(w2.heap[frame.closure].upvalues, index)],
                      closure, i + 1)

RECURSIVE closure_upvalues_loop(_, _, _)
closure_upvalues_loop(w, closure, i) ==
    IF w.ub \/ ~Valid(w, closure) THEN Undefined(w)
    ELSE IF i >= w.heap[closure].upvalue_count THEN w
    ELSE LET w1       == READ_BYTE_(w)
             is_local == w1.ret
             w2       == READ_BYTE_(w1)
             index    == w2.ret
             frame    == CurrentFrame(w2)
         IN  CASE w1.ub -> w1
               [] w2.ub -> w2
               [] OTHER ->  IF w2.ub THEN w2
             ELSE IF is_local # 0
             THEN LET w3 == capture_upvalue_(w2, frame.slots + index) IN  CASE w3.ub -> w3
                                                                           [] OTHER ->
                  IF w3.ub \/ ~Valid(w3, closure) THEN Undefined(w3)
                  ELSE closure_upvalues_loop(
                          [w3 EXCEPT !.heap[closure].upvalues[i + 1] = w3.ret], closure, i + 1)
             ELSE IF index >= w2.heap[frame.closure].upvalue_count THEN Undefined(w2)
             ELSE closure_upvalues_loop(
                      [w2 EXCEPT !.heap[closure].upvalues[i + 1] =
                                      At(w2.heap[frame.closure].upvalues, index)],
                      closure, i + 1)

(* After a call the loop takes `frame = &vm.frames[vm.frame_count - 1]`. *)
ReloadFrame(w) ==
    IF w.ub \/ w.vm.frame_count < 1 THEN Undefined(Continue(w)) ELSE Continue(w)

op_add(w) ==
    IF Dangling(w, peek(w, 0)) \/ Dangling(w, peek(w, 1)) THEN Undefined(Continue(w))
    ELSE IF IS_STRING(w, peek(w, 0)) /\ IS_STRING(w, peek(w, 1)) THEN Continue(concatenate_(w))
    ELSE IF IS_NUMBER(peek(w, 0)) /\ IS_NUMBER(peek(w, 1))
    THEN LET b == AS_NUMBER(peek(w, 0))
             a == AS_NUMBER(peek(w, 1))
         IN  Continue(stack_push(stack_pop(stack_pop(w)), NUMBER_VALUE(a + b)))
    ELSE RuntimeError(w, "Operands must be either 2 numbers or 2 strings.")

op_modulo(w) ==
    IF ~IS_NUMBER(peek(w, 0)) \/ ~IS_NUMBER(peek(w, 1))
    THEN RuntimeError(w, "Operands must be numbers.")
    ELSE LET b == AS_NUMBER(peek(w, 0))
             a == AS_NUMBER(peek(w, 1))
         IN  IF b = 0 THEN Undefined(Continue(w))
             ELSE Continue(stack_push(stack_pop(stack_pop(w)), NUMBER_VALUE(IntRemainder(a, b))))

(* An OP_RETURN that pushes the result without restoring the caller's top. *)
op_return_keeps_top(w) ==
    LET value == PoppedValue(w)
        w1    == stack_pop(w)
        frame == CurrentFrame(w1)
        w2    == close_upvalues_(w1, frame.slots)
        w3    == [w2 EXCEPT !.vm.frame_count = w2.vm.frame_count - 1]
    IN  CASE w2.ub -> w2
          [] OTHER ->  IF w3.vm.frame_count = 0 THEN Ret(stack_pop(w3), "INTERPRET_OK")
        ELSE Continue(stack_push(w3, value))

op_return(w) ==
    LET value == PoppedValue(w)
        w1    == stack_pop(w)
        frame == CurrentFrame(w1)
        w2    == close_upvalues_(w1, frame.slots)
        w3    == [w2 EXCEPT !.vm.frame_count = w2.vm.frame_count - 1]
    IN  CASE w1.ub -> w1
          [] w2.ub -> w2
          [] w3.ub -> w3
          [] OTHER ->  IF w3.vm.frame_count = 0 THEN Ret(stack_pop(w3), "INTERPRET_OK")
        ELSE Continue(stack_push([w3 EXCEPT !.vm.stack_top = frame.slots], value))

op_call(w) ==
    LET w1        == READ_BYTE_(w)
        arg_count == w1.ret
        w2        == call_value_(w1, peek(w1, arg_count), arg_count)
    IN  CASE w1.ub -> w1
          [] w2.ub -> w2
          [] OTHER ->  IF w1.ub THEN Continue(w1)
        ELSE IF w2.ub THEN Continue(w2)
        ELSE IF ~w2.ret THEN Ret(w2, "INTERPRET_RUNTIME_ERROR")
        ELSE ReloadFrame(w2)

op_print(w) ==
    LET text == print_value(w, PoppedValue(w)) IN
    IF text = BadText THEN Undefined(Continue(w))
    ELSE Continue([stack_pop(w) EXCEPT !.out = Append(w.out, text)])

(* OP_SET_GLOBAL without table_del(&vm.globals, name). *)
op_set_global_keeps_name(w) ==
    LET w1 == READ_STRING_(w)
        w2 == table_set_(w1, TABLE_GLOBALS, w1.ret, peek(w1, 0))
    IN  IF w2.ub THEN Continue(w2)
        ELSE IF w2.ret THEN RuntimeError(w2, "Undefined variable '%s'.\n")
        ELSE Continue(w2)

op_set_global(w) ==
    LET w1 == READ_STRING_(w)
        name == w1.ret
        w2 == table_set_(w1, TABLE_GLOBALS, name, peek(w1, 0))
    IN  CASE w1.ub -> w1
          [] w2.ub -> w2
          [] OTHER ->  IF w1.ub THEN Continue(w1)
        ELSE IF w2.ub THEN Continue(w2)
        ELSE IF w2.ret
        THEN RuntimeError(table_del_(w2, TABLE_GLOBALS, name), "Undefined variable '%s'.\n")
        ELSE Continue(w2)

op_get_global(w) ==
    LET w1 == READ_STRING_(w)
        w2 == table_get_(w1, TABLE_GLOBALS, w1.ret)
    IN  CASE w1.ub -> w1
          [] w2.ub -> w2
          [] OTHER ->  IF w1.ub THEN Continue(w1)
        ELSE IF w2.ub THEN Continue(w2)
        ELSE IF ~w2.ret.found THEN RuntimeError(w2, "Undefined variable '%s'.\n")
        ELSE Continue(stack_push(w2, w2.ret.value))

op_closure(w) ==
    LET w1 == READ_CONSTANT(w)
        fn == w1.ret
    IN  CASE w1.ub -> w1
          [] OTHER ->  IF w1.ub \/ ~is_object_type(w1, fn, "OBJECT_FUNCTION") THEN Undefined(Continue(w1))
        ELSE LET w2 == new_closure_(w1, AS_OBJECT(fn))
                 w3 == stack_push(w2, OBJECT_VALUE(w2.ret))
             IN  CASE w2.ub -> w2
                   [] w3.ub -> w3
                   [] OTHER ->  Continue(closure_upvalues_loop_(w3, w2.ret, 0))

op_set_property(w) ==
    IF Dangling(w, peek(w, 1)) THEN Undefined(Continue(w))
    ELSE IF ~IS_INSTANCE(w, peek(w, 1)) THEN RuntimeError(w, "Only instances have fields.")
    ELSE LET instance == AS_OBJECT(peek(w, 1))
             w1 == READ_STRING_(w)
             w2 == table_set_(w1, TableFields(instance), w1.ret, peek(w1, 0))
             value == PoppedValue(w2)
         IN  CASE w1.ub -> w1
               [] w2.ub -> w2
               [] OTHER ->  IF w1.ub THEN Continue(w1)
             ELSE Continue(stack_push(stack_pop(stack_pop(w2)), value))

op_get_property(w) ==
    IF Dangling(w, peek(w, 0)) THEN Undefined(Continue(w))
    ELSE IF ~IS_INSTANCE(w, peek(w, 0)) THEN RuntimeError(w, "Only instances have properties.")
    ELSE LET instance == AS_OBJECT(peek(w, 0))
             w1 == READ_STRING_(w)
             name == w1.ret
             w2 == table_get_(w1, TableFields(instance), name)
         IN  CASE w1.ub -> w1
               [] w2.ub -> w2
               [] OTHER ->  IF w1.ub THEN Continue(w1)
             ELSE IF w2.ub THEN Continue(w2)
             ELSE IF w2.ret.found THEN Continue(stack_push(stack_pop(w2), w2.ret.value))
             ELSE LET w3 == bind_method_(w2, w2.heap[instance].klass, name)
                  IN  CASE w3.ub -> w3
                        [] OTHER ->  IF w3.ub THEN Continue(w3)
                      ELSE IF ~w3.ret THEN Ret(w3, "INTERPRET_RUNTIME_ERROR")
                      ELSE Continue(w3)

op_get_super(w) ==
    LET w1 == READ_STRING_(w)
        name == w1.ret
        super_class == PoppedValue(w1)
        w2 == stack_pop(w1)
    IN  CASE w1.ub -> w1
          [] w2.ub -> w2
          [] OTHER ->  IF w1.ub \/ ~IS_CLASS(w2, super_class) THEN Undefined(Continue(w1))
        ELSE LET w3 == bind_method_(w2, AS_OBJECT(super_class), name)
             IN  CASE w3.ub -> w3
                   [] OTHER ->  IF w3.ub THEN Continue(w3)
                 ELSE IF ~w3.ret THEN Ret(w3, "INTERPRET_RUNTIME_ERROR")
                 ELSE Continue(w3)

op_invoke(w) ==
    LET w1 == READ_STRING_(w)
        w2 == READ_BYTE_(w1)
        w3 == invoke_(w2, w1.ret, w2.ret)
    IN  CASE w1.ub -> w1
          [] w2.ub -> w2
          [] w3.ub -> w3
          [] OTHER ->  IF w1.ub THEN Continue(w1)
        ELSE IF w2.ub THEN Continue(w2)
        ELSE IF w3.ub THEN Continue(w3)
        ELSE IF ~w3.ret THEN Ret(w3, "INTERPRET_RUNTIME_ERROR")
        ELSE ReloadFrame(w3)

op_inherit(w) ==
    LET superclass == peek(w, 1)
        subclass   == peek(w, 0)
    IN  IF Dangling(w, superclass) THEN Undefined(Continue(w))
        ELSE IF ~IS_CLASS(w, superclass) THEN RuntimeError(w, "Superclass must be a class.")
        ELSE IF ~IS_CLASS(w, subclass) THEN Undefined(Continue(w))
        ELSE Continue(stack_pop(table_add_all(w, TableMethods(AS_OBJECT(superclass)),
                                                 TableMethods(AS_OBJECT(subclass)))))

op_super_invoke(w) ==
    LET w1 == READ_STRING_(w)
        w2 == READ_BYTE_(w1)
        super_class == PoppedValue(w2)
        w3 == stack_pop(w2)
    IN  CASE w1.ub -> w1
          [] w2.ub -> w2
          [] w3.ub -> w3
          [] OTHER ->  IF w1.ub THEN Continue(w1)
        ELSE IF w2.ub THEN Continue(w2)
        ELSE IF ~IS_CLASS(w3, super_class) THEN Undefined(Continue(w3))
        ELSE LET w4 == invoke_from_class_(w3, AS_OBJECT(super_class), w1.ret, w2.ret)
             IN  CASE w4.ub -> w4
                   [] OTHER ->  IF w4.ub THEN Continue(w4)
                 ELSE IF ~w4.ret THEN Ret(w4, "INTERPRET_RUNTIME_ERROR")
                 ELSE ReloadFrame(w4)

(* run_step: w.ret is "CONTINUE" when the loop goes on, else the           *)
(* InterpretResult run() returns.  The switch has no default: a byte that  *)
(* is no opcode does nothing.                                              *)
run_step(w) ==
    LET w1    == READ_BYTE_(w)
        instr == w1.ret
        frame == CurrentFrame(w1)
    IN  CASE w1.ub -> w1
          [] OTHER ->  IF w1.ub THEN Continue(w1)
        ELSE
        CASE instr = OP_ADD      -> op_add_(w1)
          [] instr = OP_SUBTRACT -> BINARY_OP_(w1, "-")
          [] instr = OP_MULTIPLY -> BINARY_OP_(w1, "*")
          [] instr = OP_DIVIDE   -> BINARY_OP_(w1, "/")
          [] instr = OP_MODULO   -> op_modulo_(w1)
          [] instr = OP_NEGATE   ->
                IF ~IS_NUMBER(peek(w1, 0)) THEN RuntimeError(w1, "Operand must be a number.")
                ELSE Continue(stack_push(stack_pop(w1), NUMBER_VALUE(-AS_NUMBER(PoppedValue(w1)))))
          [] instr = OP_CONSTANT ->
                LET w2 == READ_CONSTANT(w1) IN  IF w2.ub THEN w2 ELSE
                IF w2.ub THEN Continue(w2) ELSE Continue(stack_push(w2, w2.ret))
          [] instr = OP_NIL      -> Continue(stack_push(w1, NIL_VALUE))
          [] instr = OP_TRUE     -> Continue(stack_push(w1, BOOL_VALUE(TRUE)))
          [] instr = OP_FALSE    -> Continue(stack_push(w1, BOOL_VALUE(FALSE)))
          [] instr = OP_NOT      ->
                Continue(stack_push(stack_pop(w1), BOOL_VALUE(is_falsey(PoppedValue(w1)))))
          [] instr = OP_POP      -> Continue(stack_pop(w1))
          [] instr = OP_EQUAL    ->
                LET b == peek(w1, 0)
                    a == peek(w1, 1)
                IN  Continue(stack_push(stack_pop(stack_pop(w1)), BOOL_VALUE(values_equal(a, b))))
          [] instr = OP_GREATER  -> BINARY_OP_(w1, ">")
          [] instr = OP_LESS     -> BINARY_OP_(w1, "<")
          [] instr = OP_LOOP     ->
                LET w2 == READ_SHORT(w1) IN  IF w2.ub THEN w2 ELSE
                IF w2.ub THEN Continue(w2)
                ELSE Continue([w2 EXCEPT !.vm.frames[w2.vm.frame_count].ip =
                                              CurrentFrame(w2).ip - w2.ret])
          [] instr = OP_RETURN   -> op_return_(w1)
          [] instr = OP_CALL     -> op_call_(w1)
          [] instr = OP_JUMP     ->
                LET w2 == READ_SHORT(w1) IN  IF w2.ub THEN w2 ELSE
                IF w2.ub THEN Continue(w2)
                ELSE Continue([w2 EXCEPT !.vm.frames[w2.vm.frame_count].ip =
                                              CurrentFrame(w2).ip + w2.ret])
          [] instr = OP_JUMP_IF_FALSE ->
                LET w2 == READ_SHORT(w1) IN  IF w2.ub THEN w2 ELSE
                IF w2.ub THEN Continue(w2)
                ELSE IF is_falsey(peek(w2, 0))
                THEN Continue([w2 EXCEPT !.vm.frames[w2.vm.frame_count].ip =
                                              CurrentFrame(w2).ip + w2.ret])
                ELSE Continue(w2)
          [] instr = OP_PRINT    -> op_print(w1)
          [] instr = OP_DEFINE_GLOBAL ->
                LET w2 == READ_STRING_(w1) IN  IF w2.ub THEN w2 ELSE
                IF w2.ub THEN Continue(w2)
                ELSE Continue(table_set_(w2, TABLE_GLOBALS, w2.ret, peek(w2, 0)))
          [] instr = OP_GET_LOCAL ->
                LET w2 == READ_BYTE_(w1) IN  IF w2.ub THEN w2 ELSE
                IF w2.ub THEN Continue(w2)
                ELSE Continue(stack_push(w2, StackRead(w2, frame.slots + w2.ret)))
          [] instr = OP_SET_LOCAL ->
                LET w2 == READ_BYTE_(w1) IN  IF w2.ub THEN w2 ELSE
                IF w2.ub THEN Continue(w2)
                ELSE Continue(StackWrite(w2, frame.slots + w2.ret, peek(w2, 0)))
          [] instr = OP_SET_GLOBAL -> op_set_global_(w1)
          [] instr = OP_GET_GLOBAL -> op_get_global_(w1)
          [] instr = OP_GET_UPVALUE ->
                LET w2 == READ_BYTE_(w1) IN  IF w2.ub THEN w2 ELSE
                IF w2.ub \/ ~UpvalueValid(w2, frame.closure, w2.ret) THEN Undefined(Continue(w2))
                ELSE Continue(stack_push(w2,
                        UpvalueRead(w2, At(w2.heap[frame.closure].upvalues, w2.ret))))
          [] instr = OP_SET_UPVALUE ->
                LET w2 == READ_BYTE_(w1) IN  IF w2.ub THEN w2 ELSE
                IF w2.ub \/ ~UpvalueValid(w2, frame.closure, w2.ret) THEN Undefined(Continue(w2))
                ELSE Continue(UpvalueWrite(w2, At(w2.heap[frame.closure].upvalues, w2.ret),
                                           peek(w2, 0)))
          [] instr = OP_CLOSE_UPVALUE ->
                Continue(stack_pop(close_upvalues_(w1, w1.vm.stack_top - 1)))
          [] instr = OP_CLOSURE  -> op_closure_(w1)
          [] instr = OP_SET_PROPERTY -> op_set_property_(w1)
          [] instr = OP_GET_PROPERTY -> op_get_property_(w1)
          [] instr = OP_GET_SUPER -> op_get_super_(w1)
          [] instr = OP_CLASS    ->
                LET w2 == READ_STRING_(w1)
                    w3 == new_class(w2, w2.ret)
                IN  IF w2.ub THEN w2 ELSE IF w3.ub THEN w3 ELSE  IF w2.ub THEN Continue(w2)
                    ELSE Continue(stack_push(w3, OBJECT_VALUE(w3.ret)))
          [] instr = OP_METHOD   ->
                LET w2 == READ_STRING_(w1) IN  IF w2.ub THEN w2 ELSE
                IF w2.ub THEN Continue(w2) ELSE Continue(define_method_(w2, w2.ret))
          [] instr = OP_INVOKE   -> op_invoke_(w1)
          [] instr = OP_INHERIT  -> op_inherit_(w1)
          [] instr = OP_SUPER_INVOKE -> op_super_invoke_(w1)
          [] OTHER -> Continue(w1)

init_table == EmptyTable

(* init_vm, on the zeroed static `vm`. *)
init_vm(w) ==
    LET w1 == reset_stack(w)
        w2 == [w1 EXCEPT !.vm.bytes_allocated = 0,
                         !.vm.gray_stack = {},
                         !.vm.objects = <<>>,
                         !.vm.next_gc = INITIAL_NEXT_GC,
                         !.vm.strings = init_table,
                         !.vm.globals = init_table,
                         !.vm.init_string = NULL]
        w3 == copy_string(w2, init_chars, 4)
        w4 == [w3 EXCEPT !.vm.init_string = w3.ret]
    IN  CASE w1.ub -> w1
          [] w2.ub -> w2
          [] w3.ub -> w3
          [] w4.ub -> w4
          [] OTHER ->  define_native_(w4, clock_chars, "clock_native")

(* interpret, up to its call of run(): w.ret is "RUN" there, else the      *)
(* InterpretResult returned.                                               *)
interpret(w, source) ==
    LET w1 == compile_(w, source)
        fn == w1.ret
    IN  CASE w1.ub -> w1
          [] OTHER ->  IF w1.ub THEN w1
        ELSE IF fn = NULL THEN Ret(w1, "INTERPRET_COMPILE_ERROR")
        ELSE LET w2      == new_closure_(w1, fn)
                 closure == w2.ret
                 w3      == stack_pop(w2)
                 w4      == stack_push(w3, OBJECT_VALUE(closure))
                 w5      == call_value_(w4, OBJECT_VALUE(closure), 0)
             IN  CASE w2.ub -> w2
                   [] w3.ub -> w3
                   [] w4.ub -> w4
                   [] w5.ub -> w5
                   [] OTHER ->  Ret(w5, "RUN")

(***************************************************************************)
(* A VM whose tables have been used: Strings of one letter as keys.        *)
(***************************************************************************)
(* The letters of the keys, a to c and q to s: the hashes of a and q, of b  *)
(* and r, of c and s name the same slot of a table of 8 or 16 entries.     *)
KeyLetters == (97..99) \cup (113..115)

RECURSIVE InternLetters(_, _)
InternLetters(w, letters) ==
    IF letters = {} THEN w
    ELSE LET c == CHOOSE x \in letters : \A y \in letters : x <= y
         IN  InternLetters(copy_string_(w, <<c>>, 1), letters \ {c})

KeyOf(h, c) == CHOOSE o \in DOMAIN h : h[o].type = "OBJECT_STRING" /\ h[o].chars = <<c>>

RECURSIVE SetLetters(_, _, _, _)
SetLetters(w, tref, letters, value) ==
    IF letters = {} THEN w
    ELSE LET c == CHOOSE x \in letters : \A y \in letters : x <= y
         IN  SetLetters(table_set_(w, tref, KeyOf(w.heap, c), value), tref, letters \ {c}, value)

(* The VM with the keys interned, a class whose methods are r and s, and n *)
(* globals set; w.ret is the class.                                        *)
TablesBuilt(w, n) ==
    LET w1 == new_class(InternLetters(init_vm_(w), KeyLetters), NULL)
        w2 == SetLetters(w1, TableMethods(w1.ret), {114, 115}, BOOL_VALUE(FALSE))
        first == {c \in KeyLetters : Cardinality({d \in KeyLetters : d < c}) < n}
    IN  Ret(SetLetters(w2, TABLE_GLOBALS, first, NUMBER_VALUE(0)), w1.ret)

(***************************************************************************)
(* The call of the function `name` on the arguments `args`.  C evaluates   *)
(* the arguments before the call: so does the first arm, which no call     *)
(* takes, as every function routed here has a parameter.                   *)
(***************************************************************************)
Call(name, args) ==
    CASE args = <<>> -> args
      [] name = "XorBits" -> XorBits(args[1], args[2], args[3])
      [] name = "HashLoop" -> HashLoop(args[1], args[2], args[3])
      [] name = "Roots" -> Roots(args[1])
      [] name = "References" -> References(args[1], args[2])
      [] name = "ReachableFrom" -> ReachableFrom(args[1], args[2])
      [] name = "find_entry_loop" -> find_entry_loop(args[1], args[2], args[3], args[4], args[5])
      [] name = "mark_roots" -> mark_roots(args[1])
      [] name = "blacken_object" -> blacken_object(args[1], args[2])
      [] name = "trace_references" -> trace_references(args[1])
      [] name = "table_del" -> table_del(args[1], args[2], args[3])
      [] name = "table_remove_white" -> table_remove_white(args[1], args[2])
      [] name = "SumBytes" -> SumBytes(args[1], args[2], args[3], args[4])
      [] name = "sweep" -> sweep(args[1])
      [] name = "collect_garbage" -> collect_garbage(args[1])
      [] name = "reallocate" -> reallocate(args[1], args[2], args[3])
      [] name = "adjust_capacity_loop" -> adjust_capacity_loop(args[1], args[2], args[3], args[4], args[5], args[6])
      [] name = "adjust_capacity" -> adjust_capacity(args[1], args[2], args[3])
      [] name = "table_get" -> table_get(args[1], args[2], args[3])
      [] name = "table_set" -> table_set(args[1], args[2], args[3], args[4])
      [] name = "table_add_all_loop" -> table_add_all_loop(args[1], args[2], args[3], args[4])
      [] name = "table_find_string_loop" -> table_find_string_loop(args[1], args[2], args[3], args[4], args[5])
      [] name = "allocate_string" -> allocate_string(args[1], args[2], args[3], args[4])
      [] name = "new_closure" -> new_closure(args[1], args[2])
      [] name = "write_chunk" -> write_chunk(args[1], args[2], args[3])
      [] name = "write_value_array" -> write_value_array(args[1], args[2], args[3])
      [] name = "add_constant" -> add_constant(args[1], args[2], args[3])
      [] name = "advance_loop" -> advance_loop(args[1])
      [] name = "emit_loop" -> emit_loop(args[1], args[2])
      [] name = "emit_constant" -> emit_constant(args[1], args[2])
      [] name = "patch_jump" -> patch_jump(args[1], args[2])
      [] name = "init_compiler" -> init_compiler(args[1], args[2])
      [] name = "end_compiler" -> end_compiler(args[1])
      [] name = "end_scope_loop" -> end_scope_loop(args[1])
      [] name = "identifier_constant" -> identifier_constant(args[1], args[2])
      [] name = "resolve_local_loop" -> resolve_local_loop(args[1], args[2], args[3], args[4])
      [] name = "add_upvalue_loop" -> add_upvalue_loop(args[1], args[2], args[3], args[4])
      [] name = "add_upvalue" -> add_upvalue(args[1], args[2], args[3], args[4])
      [] name = "resolve_upvalue" -> resolve_upvalue(args[1], args[2], args[3])
      [] name = "declare_variable_loop" -> declare_variable_loop(args[1], args[2], args[3])
      [] name = "parse_variable" -> parse_variable(args[1], args[2])
      [] name = "named_variable" -> named_variable(args[1], args[2], args[3])
      [] name = "argument_list_loop" -> argument_list_loop(args[1], args[2])
      [] name = "and_" -> and_(args[1], args[2])
      [] name = "or_" -> or_(args[1], args[2])
      [] name = "block_loop" -> block_loop(args[1])
      [] name = "function_params" -> function_params(args[1])
      [] name = "emit_upvalues" -> emit_upvalues(args[1], args[2], args[3])
      [] name = "function" -> function(args[1], args[2])
      [] name = "method" -> method(args[1])
      [] name = "var_declaration" -> var_declaration(args[1])
      [] name = "fun_declaration" -> fun_declaration(args[1])
      [] name = "class_methods" -> class_methods(args[1])
      [] name = "class_superclass" -> class_superclass(args[1], args[2])
      [] name = "class_body" -> class_body(args[1], args[2])
      [] name = "class_named" -> class_named(args[1], args[2])
      [] name = "binary" -> binary(args[1], args[2])
      [] name = "call_expr" -> call_expr(args[1], args[2])
      [] name = "strtod_loop" -> strtod_loop(args[1], args[2], args[3])
      [] name = "string" -> string(args[1], args[2])
      [] name = "super_" -> super_(args[1], args[2])
      [] name = "ParseFn" -> ParseFn(args[1], args[2], args[3])
      [] name = "parse_precedence_loop" -> parse_precedence_loop(args[1], args[2], args[3])
      [] name = "parse_precedence" -> parse_precedence(args[1], args[2])
      [] name = "return_statement" -> return_statement(args[1])
      [] name = "if_statement" -> if_statement(args[1])
      [] name = "while_statement" -> while_statement(args[1])
      [] name = "for_initializer" -> for_initializer(args[1])
      [] name = "for_condition" -> for_condition(args[1])
      [] name = "for_increment" -> for_increment(args[1], args[2])
      [] name = "for_statement" -> for_statement(args[1])
      [] name = "synchronize_loop" -> synchronize_loop(args[1])
      [] name = "statement" -> statement(args[1])
      [] name = "declaration" -> declaration(args[1])
      [] name = "function_head" -> function_head(args[1])
      [] name = "compile_head" -> compile_head(args[1], args[2])
      [] name = "TablesBuilt" -> TablesBuilt(args[1], args[2])
      [] name = "copy_string" -> copy_string(args[1], args[2], args[3])
      [] name = "if_tail" -> if_tail(args[1], args[2])
      [] name = "while_tail" -> while_tail(args[1], args[2], args[3])
      [] name = "compile_loop" -> compile_loop(args[1])
      [] name = "compile" -> compile(args[1], args[2])
      [] name = "Digits" -> Digits(args[1])
      [] name = "Log10" -> Log10(args[1])
      [] name = "Pow10" -> Pow10(args[1])
      [] name = "StripZeros" -> StripZeros(args[1])
      [] name = "FormatG" -> FormatG(args[1])
      [] name = "print_object" -> print_object(args[1], args[2])
      [] name = "runtime_error_loop" -> runtime_error_loop(args[1], args[2])
      [] name = "define_native" -> define_native(args[1], args[2], args[3])
      [] name = "call" -> call(args[1], args[2], args[3])
      [] name = "call_value" -> call_value(args[1], args[2], args[3])
      [] name = "invoke_from_class" -> invoke_from_class(args[1], args[2], args[3], args[4])
      [] name = "invoke" -> invoke(args[1], args[2], args[3])
      [] name = "bind_method" -> bind_method(args[1], args[2], args[3])
      [] name = "capture_upvalue_loop" -> capture_upvalue_loop(args[1], args[2], args[3])
      [] name = "capture_upvalue" -> capture_upvalue(args[1], args[2])
      [] name = "close_upvalues" -> close_upvalues(args[1], args[2])
      [] name = "define_method" -> define_method(args[1], args[2])
      [] name = "concatenate" -> concatenate(args[1])
      [] name = "READ_BYTE" -> READ_BYTE(args[1])
      [] name = "READ_STRING" -> READ_STRING(args[1])
      [] name = "BINARY_OP" -> BINARY_OP(args[1], args[2])
      [] name = "closure_upvalues_loop" -> closure_upvalues_loop(args[1], args[2], args[3])
      [] name = "op_add" -> op_add(args[1])
      [] name = "op_modulo" -> op_modulo(args[1])
      [] name = "op_return" -> op_return(args[1])
      [] name = "op_call" -> op_call(args[1])
      [] name = "op_set_global" -> op_set_global(args[1])
      [] name = "op_get_global" -> op_get_global(args[1])
      [] name = "op_closure" -> op_closure(args[1])
      [] name = "op_set_property" -> op_set_property(args[1])
      [] name = "op_get_property" -> op_get_property(args[1])
      [] name = "op_get_super" -> op_get_super(args[1])
      [] name = "op_invoke" -> op_invoke(args[1])
      [] name = "op_inherit" -> op_inherit(args[1])
      [] name = "op_super_invoke" -> op_super_invoke(args[1])
      [] name = "run_step" -> run_step(args[1])
      [] name = "init_vm" -> init_vm(args[1])
      [] name = "interpret" -> interpret(args[1], args[2])

(***************************************************************************)
(* The lines the interpreter is fed, as the tokens the scanner yields.      *)
(***************************************************************************)
(* var a = 1; print b; *)
Source_undef_read ==
    <<Token("TOKEN_VAR", <<118, 97, 114>>), Token("TOKEN_IDENTIFIER", <<97>>),
     Token("TOKEN_EQUAL", <<61>>), Token("TOKEN_NUMBER", <<49>>), Token("TOKEN_SEMICOLON", <<59>>),
     Token("TOKEN_PRINT", <<112, 114, 105, 110, 116>>), Token("TOKEN_IDENTIFIER", <<98>>),
     Token("TOKEN_SEMICOLON", <<59>>)>>

(* print a; *)
Source_print_a ==
    <<Token("TOKEN_PRINT", <<112, 114, 105, 110, 116>>), Token("TOKEN_IDENTIFIER", <<97>>),
     Token("TOKEN_SEMICOLON", <<59>>)>>

(* var = 1; *)
Source_bad_var ==
    <<Token("TOKEN_VAR", <<118, 97, 114>>), Token("TOKEN_EQUAL", <<61>>),
     Token("TOKEN_NUMBER", <<49>>), Token("TOKEN_SEMICOLON", <<59>>)>>

(* print 1 +; *)
Source_bad_expr ==
    <<Token("TOKEN_PRINT", <<112, 114, 105, 110, 116>>), Token("TOKEN_NUMBER", <<49>>),
     Token("TOKEN_PLUS", <<43>>), Token("TOKEN_SEMICOLON", <<59>>)>>

(* fun f(a) {} f(); print 1; *)
Source_fun_arity ==
    <<Token("TOKEN_FUN", <<102, 117, 110>>), Token("TOKEN_IDENTIFIER", <<102>>),
     Token("TOKEN_LEFT_PAREN", <<40>>), Token("TOKEN_IDENTIFIER", <<97>>),
     Token("TOKEN_RIGHT_PAREN", <<41>>), Token("TOKEN_LEFT_BRACE", <<123>>),
     Token("TOKEN_RIGHT_BRACE", <<125>>), Token("TOKEN_IDENTIFIER", <<102>>),
     Token("TOKEN_LEFT_PAREN", <<40>>), Token("TOKEN_RIGHT_PAREN", <<41>>),
     Token("TOKEN_SEMICOLON", <<59>>), Token("TOKEN_PRINT", <<112, 114, 105, 110, 116>>),
     Token("TOKEN_NUMBER", <<49>>), Token("TOKEN_SEMICOLON", <<59>>)>>

(* class A {} A(1); print 1; *)
Source_class_args ==
    <<Token("TOKEN_CLASS", <<99, 108, 97, 115, 115>>), Token("TOKEN_IDENTIFIER", <<65>>),
     Token("TOKEN_LEFT_BRACE", <<123>>), Token("TOKEN_RIGHT_BRACE", <<125>>),
     Token("TOKEN_IDENTIFIER", <<65>>), Token("TOKEN_LEFT_PAREN", <<40>>),
     Token("TOKEN_NUMBER", <<49>>), Token("TOKEN_RIGHT_PAREN", <<41>>),
     Token("TOKEN_SEMICOLON", <<59>>), Token("TOKEN_PRINT", <<112, 114, 105, 110, 116>>),
     Token("TOKEN_NUMBER", <<49>>), Token("TOKEN_SEMICOLON", <<59>>)>>

(* class C { m(x) {} } C().m(); print 1; *)
Source_method_arity ==
    <<Token("TOKEN_CLASS", <<99, 108, 97, 115, 115>>), Token("TOKEN_IDENTIFIER", <<67>>),
     Token("TOKEN_LEFT_BRACE", <<123>>), Token("TOKEN_IDENTIFIER", <<109>>),
     Token("TOKEN_LEFT_PAREN", <<40>>), Token("TOKEN_IDENTIFIER", <<120>>),
     Token("TOKEN_RIGHT_PAREN", <<41>>), Token("TOKEN_LEFT_BRACE", <<123>>),
     Token("TOKEN_RIGHT_BRACE", <<125>>), Token("TOKEN_RIGHT_BRACE", <<125>>),
     Token("TOKEN_IDENTIFIER", <<67>>), Token("TOKEN_LEFT_PAREN", <<40>>),
     Token("TOKEN_RIGHT_PAREN", <<41>>), Token("TOKEN_DOT", <<46>>),
     Token("TOKEN_IDENTIFIER", <<109>>), Token("TOKEN_LEFT_PAREN", <<40>>),
     Token("TOKEN_RIGHT_PAREN", <<41>>), Token("TOKEN_SEMICOLON", <<59>>),
     Token("TOKEN_PRINT", <<112, 114, 105, 110, 116>>), Token("TOKEN_NUMBER", <<49>>),
     Token("TOKEN_SEMICOLON", <<59>>)>>

(* class B { init(x) {} } B(); print 1; *)
Source_init_arity ==
    <<Token("TOKEN_CLASS", <<99, 108, 97, 115, 115>>), Token("TOKEN_IDENTIFIER", <<66>>),
     Token("TOKEN_LEFT_BRACE", <<123>>), Token("TOKEN_IDENTIFIER", <<105, 110, 105, 116>>),
     Token("TOKEN_LEFT_PAREN", <<40>>), Token("TOKEN_IDENTIFIER", <<120>>),
     Token("TOKEN_RIGHT_PAREN", <<41>>), Token("TOKEN_LEFT_BRACE", <<123>>),
     Token("TOKEN_RIGHT_BRACE", <<125>>), Token("TOKEN_RIGHT_BRACE", <<125>>),
     Token("TOKEN_IDENTIFIER", <<66>>), Token("TOKEN_LEFT_PAREN", <<40>>),
     Token("TOKEN_RIGHT_PAREN", <<41>>), Token("TOKEN_SEMICOLON", <<59>>),
     Token("TOKEN_PRINT", <<112, 114, 105, 110, 116>>), Token("TOKEN_NUMBER", <<49>>),
     Token("TOKEN_SEMICOLON", <<59>>)>>

(* var g; fun outer() { var x = 1; fun inner() { print x; } g = inner; nothing(); }         *)
(* outer();                                                                                 *)
Source_leak_upvalue ==
    <<Token("TOKEN_VAR", <<118, 97, 114>>), Token("TOKEN_IDENTIFIER", <<103>>),
     Token("TOKEN_SEMICOLON", <<59>>), Token("TOKEN_FUN", <<102, 117, 110>>),
     Token("TOKEN_IDENTIFIER", <<111, 117, 116, 101, 114>>), Token("TOKEN_LEFT_PAREN", <<40>>),
     Token("TOKEN_RIGHT_PAREN", <<41>>), Token("TOKEN_LEFT_BRACE", <<123>>),
     Token("TOKEN_VAR", <<118, 97, 114>>), Token("TOKEN_IDENTIFIER", <<120>>),
     Token("TOKEN_EQUAL", <<61>>), Token("TOKEN_NUMBER", <<49>>), Token("TOKEN_SEMICOLON", <<59>>),
     Token("TOKEN_FUN", <<102, 117, 110>>), Token("TOKEN_IDENTIFIER", <<105, 110, 110, 101, 114>>),
     Token("TOKEN_LEFT_PAREN", <<40>>), Token("TOKEN_RIGHT_PAREN", <<41>>),
     Token("TOKEN_LEFT_BRACE", <<123>>), Token("TOKEN_PRINT", <<112, 114, 105, 110, 116>>),
     Token("TOKEN_IDENTIFIER", <<120>>), Token("TOKEN_SEMICOLON", <<59>>),
     Token("TOKEN_RIGHT_BRACE", <<125>>), Token("TOKEN_IDENTIFIER", <<103>>),
     Token("TOKEN_EQUAL", <<61>>), Token("TOKEN_IDENTIFIER", <<105, 110, 110, 101, 114>>),
     Token("TOKEN_SEMICOLON", <<59>>),
     Token("TOKEN_IDENTIFIER", <<110, 111, 116, 104, 105, 110, 103>>),
     Token("TOKEN_LEFT_PAREN", <<40>>), Token("TOKEN_RIGHT_PAREN", <<41>>),
     Token("TOKEN_SEMICOLON", <<59>>), Token("TOKEN_RIGHT_BRACE", <<125>>),
     Token("TOKEN_IDENTIFIER", <<111, 117, 116, 101, 114>>), Token("TOKEN_LEFT_PAREN", <<40>>),
     Token("TOKEN_RIGHT_PAREN", <<41>>), Token("TOKEN_SEMICOLON", <<59>>)>>

(* g(); *)
Source_call_g ==
    <<Token("TOKEN_IDENTIFIER", <<103>>), Token("TOKEN_LEFT_PAREN", <<40>>),
     Token("TOKEN_RIGHT_PAREN", <<41>>), Token("TOKEN_SEMICOLON", <<59>>)>>

(* var ga; var gb; fun make() { var x = 0; fun a() { x = x + 1; } fun b() { print x; } ga = *)
(* a; gb = b; a(); b(); x = 5; b(); } make(); ga(); gb();                                   *)
Source_shared_upvalue ==
    <<Token("TOKEN_VAR", <<118, 97, 114>>), Token("TOKEN_IDENTIFIER", <<103, 97>>),
     Token("TOKEN_SEMICOLON", <<59>>), Token("TOKEN_VAR", <<118, 97, 114>>),
     Token("TOKEN_IDENTIFIER", <<103, 98>>), Token("TOKEN_SEMICOLON", <<59>>),
     Token("TOKEN_FUN", <<102, 117, 110>>), Token("TOKEN_IDENTIFIER", <<109, 97, 107, 101>>),
     Token("TOKEN_LEFT_PAREN", <<40>>), Token("TOKEN_RIGHT_PAREN", <<41>>),
     Token("TOKEN_LEFT_BRACE", <<123>>), Token("TOKEN_VAR", <<118, 97, 114>>),
     Token("TOKEN_IDENTIFIER", <<120>>), Token("TOKEN_EQUAL", <<61>>),
     Token("TOKEN_NUMBER", <<48>>), Token("TOKEN_SEMICOLON", <<59>>),
     Token("TOKEN_FUN", <<102, 117, 110>>), Token("TOKEN_IDENTIFIER", <<97>>),
     Token("TOKEN_LEFT_PAREN", <<40>>), Token("TOKEN_RIGHT_PAREN", <<41>>),
     Token("TOKEN_LEFT_BRACE", <<123>>), Token("TOKEN_IDENTIFIER", <<120>>),
     Token("TOKEN_EQUAL", <<61>>), Token("TOKEN_IDENTIFIER", <<120>>), Token("TOKEN_PLUS", <<43>>),
     Token("TOKEN_NUMBER", <<49>>), Token("TOKEN_SEMICOLON", <<59>>),
     Token("TOKEN_RIGHT_BRACE", <<125>>), Token("TOKEN_FUN", <<102, 117, 110>>),
     Token("TOKEN_IDENTIFIER", <<98>>), Token("TOKEN_LEFT_PAREN", <<40>>),
     Token("TOKEN_RIGHT_PAREN", <<41>>), Token("TOKEN_LEFT_BRACE", <<123>>),
     Token("TOKEN_PRINT", <<112, 114, 105, 110, 116>>), Token("TOKEN_IDENTIFIER", <<120>>),
     Token("TOKEN_SEMICOLON", <<59>>), Token("TOKEN_RIGHT_BRACE", <<125>>),
     Token("TOKEN_IDENTIFIER", <<103, 97>>), Token("TOKEN_EQUAL", <<61>>),
     Token("TOKEN_IDENTIFIER", <<97>>), Token("TOKEN_SEMICOLON", <<59>>),
     Token("TOKEN_IDENTIFIER", <<103, 98>>), Token("TOKEN_EQUAL", <<61>>),
     Token("TOKEN_IDENTIFIER", <<98>>), Token("TOKEN_SEMICOLON", <<59>>),
     Token("TOKEN_IDENTIFIER", <<97>>), Token("TOKEN_LEFT_PAREN", <<40>>),
     Token("TOKEN_RIGHT_PAREN", <<41>>), Token("TOKEN_SEMICOLON", <<59>>),
     Token("TOKEN_IDENTIFIER", <<98>>), Token("TOKEN_LEFT_PAREN", <<40>>),
     Token("TOKEN_RIGHT_PAREN", <<41>>), Token("TOKEN_SEMICOLON", <<59>>),
     Token("TOKEN_IDENTIFIER", <<120>>), Token("TOKEN_EQUAL", <<61>>),
     Token("TOKEN_NUMBER", <<53>>), Token("TOKEN_SEMICOLON", <<59>>),
     Token("TOKEN_IDENTIFIER", <<98>>), Token("TOKEN_LEFT_PAREN", <<40>>),
     Token("TOKEN_RIGHT_PAREN", <<41>>), Token("TOKEN_SEMICOLON", <<59>>),
     Token("TOKEN_RIGHT_BRACE", <<125>>), Token("TOKEN_IDENTIFIER", <<109, 97, 107, 101>>),
     Token("TOKEN_LEFT_PAREN", <<40>>), Token("TOKEN_RIGHT_PAREN", <<41>>),
     Token("TOKEN_SEMICOLON", <<59>>), Token("TOKEN_IDENTIFIER", <<103, 97>>),
     Token("TOKEN_LEFT_PAREN", <<40>>), Token("TOKEN_RIGHT_PAREN", <<41>>),
     Token("TOKEN_SEMICOLON", <<59>>), Token("TOKEN_IDENTIFIER", <<103, 98>>),
     Token("TOKEN_LEFT_PAREN", <<40>>), Token("TOKEN_RIGHT_PAREN", <<41>>),
     Token("TOKEN_SEMICOLON", <<59>>)>>

(* print 1 + 2; *)
Source_print_sum ==
    <<Token("TOKEN_PRINT", <<112, 114, 105, 110, 116>>), Token("TOKEN_NUMBER", <<49>>),
     Token("TOKEN_PLUS", <<43>>), Token("TOKEN_NUMBER", <<50>>), Token("TOKEN_SEMICOLON", <<59>>)>>

(* var i = 0; while (i < 3) { print i; i = i + 1; } *)
Source_while_loop ==
    <<Token("TOKEN_VAR", <<118, 97, 114>>), Token("TOKEN_IDENTIFIER", <<105>>),
     Token("TOKEN_EQUAL", <<61>>), Token("TOKEN_NUMBER", <<48>>), Token("TOKEN_SEMICOLON", <<59>>),
     Token("TOKEN_WHILE", <<119, 104, 105, 108, 101>>), Token("TOKEN_LEFT_PAREN", <<40>>),
     Token("TOKEN_IDENTIFIER", <<105>>), Token("TOKEN_LESS", <<60>>), Token("TOKEN_NUMBER", <<51>>),
     Token("TOKEN_RIGHT_PAREN", <<41>>), Token("TOKEN_LEFT_BRACE", <<123>>),
     Token("TOKEN_PRINT", <<112, 114, 105, 110, 116>>), Token("TOKEN_IDENTIFIER", <<105>>),
     Token("TOKEN_SEMICOLON", <<59>>), Token("TOKEN_IDENTIFIER", <<105>>),
     Token("TOKEN_EQUAL", <<61>>), Token("TOKEN_IDENTIFIER", <<105>>), Token("TOKEN_PLUS", <<43>>),
     Token("TOKEN_NUMBER", <<49>>), Token("TOKEN_SEMICOLON", <<59>>),
     Token("TOKEN_RIGHT_BRACE", <<125>>)>>

(* for (var i = 0; i < 2; i = i + 1) print i; *)
Source_for_loop ==
    <<Token("TOKEN_FOR", <<102, 111, 114>>), Token("TOKEN_LEFT_PAREN", <<40>>),
     Token("TOKEN_VAR", <<118, 97, 114>>), Token("TOKEN_IDENTIFIER", <<105>>),
     Token("TOKEN_EQUAL", <<61>>), Token("TOKEN_NUMBER", <<48>>), Token("TOKEN_SEMICOLON", <<59>>),
     Token("TOKEN_IDENTIFIER", <<105>>), Token("TOKEN_LESS", <<60>>), Token("TOKEN_NUMBER", <<50>>),
     Token("TOKEN_SEMICOLON", <<59>>), Token("TOKEN_IDENTIFIER", <<105>>),
     Token("TOKEN_EQUAL", <<61>>), Token("TOKEN_IDENTIFIER", <<105>>), Token("TOKEN_PLUS", <<43>>),
     Token("TOKEN_NUMBER", <<49>>), Token("TOKEN_RIGHT_PAREN", <<41>>),
     Token("TOKEN_PRINT", <<112, 114, 105, 110, 116>>), Token("TOKEN_IDENTIFIER", <<105>>),
     Token("TOKEN_SEMICOLON", <<59>>)>>

(* print true and false; *)
Source_and_expr ==
    <<Token("TOKEN_PRINT", <<112, 114, 105, 110, 116>>),
     Token("TOKEN_TRUE", <<116, 114, 117, 101>>), Token("TOKEN_AND", <<97, 110, 100>>),
     Token("TOKEN_FALSE", <<102, 97, 108, 115, 101>>), Token("TOKEN_SEMICOLON", <<59>>)>>

(* var s = "a" + "b"; print s; *)
Source_concat ==
    <<Token("TOKEN_VAR", <<118, 97, 114>>), Token("TOKEN_IDENTIFIER", <<115>>),
     Token("TOKEN_EQUAL", <<61>>), Token("TOKEN_STRING", <<34, 97, 34>>),
     Token("TOKEN_PLUS", <<43>>), Token("TOKEN_STRING", <<34, 98, 34>>),
     Token("TOKEN_SEMICOLON", <<59>>), Token("TOKEN_PRINT", <<112, 114, 105, 110, 116>>),
     Token("TOKEN_IDENTIFIER", <<115>>), Token("TOKEN_SEMICOLON", <<59>>)>>

(* class P { init(x) { this.x = x; } get() { return this.x; } } var p = P("k" + "v"); var m *)
(* = p.get; print m();                                                                      *)
Source_instance ==
    <<Token("TOKEN_CLASS", <<99, 108, 97, 115, 115>>), Token("TOKEN_IDENTIFIER", <<80>>),
     Token("TOKEN_LEFT_BRACE", <<123>>), Token("TOKEN_IDENTIFIER", <<105, 110, 105, 116>>),
     Token("TOKEN_LEFT_PAREN", <<40>>), Token("TOKEN_IDENTIFIER", <<120>>),
     Token("TOKEN_RIGHT_PAREN", <<41>>), Token("TOKEN_LEFT_BRACE", <<123>>),
     Token("TOKEN_THIS", <<116, 104, 105, 115>>), Token("TOKEN_DOT", <<46>>),
     Token("TOKEN_IDENTIFIER", <<120>>), Token("TOKEN_EQUAL", <<61>>),
     Token("TOKEN_IDENTIFIER", <<120>>), Token("TOKEN_SEMICOLON", <<59>>),
     Token("TOKEN_RIGHT_BRACE", <<125>>), Token("TOKEN_IDENTIFIER", <<103, 101, 116>>),
     Token("TOKEN_LEFT_PAREN", <<40>>), Token("TOKEN_RIGHT_PAREN", <<41>>),
     Token("TOKEN_LEFT_BRACE", <<123>>), Token("TOKEN_RETURN", <<114, 101, 116, 117, 114, 110>>),
     Token("TOKEN_THIS", <<116, 104, 105, 115>>), Token("TOKEN_DOT", <<46>>),
     Token("TOKEN_IDENTIFIER", <<120>>), Token("TOKEN_SEMICOLON", <<59>>),
     Token("TOKEN_RIGHT_BRACE", <<125>>), Token("TOKEN_RIGHT_BRACE", <<125>>),
     Token("TOKEN_VAR", <<118, 97, 114>>), Token("TOKEN_IDENTIFIER", <<112>>),
     Token("TOKEN_EQUAL", <<61>>), Token("TOKEN_IDENTIFIER", <<80>>),
     Token("TOKEN_LEFT_PAREN", <<40>>), Token("TOKEN_STRING", <<34, 107, 34>>),
     Token("TOKEN_PLUS", <<43>>), Token("TOKEN_STRING", <<34, 118, 34>>),
     Token("TOKEN_RIGHT_PAREN", <<41>>), Token("TOKEN_SEMICOLON", <<59>>),
     Token("TOKEN_VAR", <<118, 97, 114>>), Token("TOKEN_IDENTIFIER", <<109>>),
     Token("TOKEN_EQUAL", <<61>>), Token("TOKEN_IDENTIFIER", <<112>>), Token("TOKEN_DOT", <<46>>),
     Token("TOKEN_IDENTIFIER", <<103, 101, 116>>), Token("TOKEN_SEMICOLON", <<59>>),
     Token("TOKEN_PRINT", <<112, 114, 105, 110, 116>>), Token("TOKEN_IDENTIFIER", <<109>>),
     Token("TOKEN_LEFT_PAREN", <<40>>), Token("TOKEN_RIGHT_PAREN", <<41>>),
     Token("TOKEN_SEMICOLON", <<59>>)>>

(* fun mk() { var t = "x" + "y"; fun get() { return t; } return get; } var h = mk(); print  *)
(* h() + "z";                                                                               *)
Source_closure ==
    <<Token("TOKEN_FUN", <<102, 117, 110>>), Token("TOKEN_IDENTIFIER", <<109, 107>>),
     Token("TOKEN_LEFT_PAREN", <<40>>), Token("TOKEN_RIGHT_PAREN", <<41>>),
     Token("TOKEN_LEFT_BRACE", <<123>>), Token("TOKEN_VAR", <<118, 97, 114>>),
     Token("TOKEN_IDENTIFIER", <<116>>), Token("TOKEN_EQUAL", <<61>>),
     Token("TOKEN_STRING", <<34, 120, 34>>), Token("TOKEN_PLUS", <<43>>),
     Token("TOKEN_STRING", <<34, 121, 34>>), Token("TOKEN_SEMICOLON", <<59>>),
     Token("TOKEN_FUN", <<102, 117, 110>>), Token("TOKEN_IDENTIFIER", <<103, 101, 116>>),
     Token("TOKEN_LEFT_PAREN", <<40>>), Token("TOKEN_RIGHT_PAREN", <<41>>),
     Token("TOKEN_LEFT_BRACE", <<123>>), Token("TOKEN_RETURN", <<114, 101, 116, 117, 114, 110>>),
     Token("TOKEN_IDENTIFIER", <<116>>), Token("TOKEN_SEMICOLON", <<59>>),
     Token("TOKEN_RIGHT_BRACE", <<125>>), Token("TOKEN_RETURN", <<114, 101, 116, 117, 114, 110>>),
     Token("TOKEN_IDENTIFIER", <<103, 101, 116>>), Token("TOKEN_SEMICOLON", <<59>>),
     Token("TOKEN_RIGHT_BRACE", <<125>>), Token("TOKEN_VAR", <<118, 97, 114>>),
     Token("TOKEN_IDENTIFIER", <<104>>), Token("TOKEN_EQUAL", <<61>>),
     Token("TOKEN_IDENTIFIER", <<109, 107>>), Token("TOKEN_LEFT_PAREN", <<40>>),
     Token("TOKEN_RIGHT_PAREN", <<41>>), Token("TOKEN_SEMICOLON", <<59>>),
     Token("TOKEN_PRINT", <<112, 114, 105, 110, 116>>), Token("TOKEN_IDENTIFIER", <<104>>),
     Token("TOKEN_LEFT_PAREN", <<40>>), Token("TOKEN_RIGHT_PAREN", <<41>>),
     Token("TOKEN_PLUS", <<43>>), Token("TOKEN_STRING", <<34, 122, 34>>),
     Token("TOKEN_SEMICOLON", <<59>>)>>

(* class A { f() { print 1; } g() { print 2; } } class B < A { g() { print 3; } } var b =   *)
(* B(); b.f(); b.g(); A().g();                                                              *)
Source_inherit ==
    <<Token("TOKEN_CLASS", <<99, 108, 97, 115, 115>>), Token("TOKEN_IDENTIFIER", <<65>>),
     Token("TOKEN_LEFT_BRACE", <<123>>), Token("TOKEN_IDENTIFIER", <<102>>),
     Token("TOKEN_LEFT_PAREN", <<40>>), Token("TOKEN_RIGHT_PAREN", <<41>>),
     Token("TOKEN_LEFT_BRACE", <<123>>), Token("TOKEN_PRINT", <<112, 114, 105, 110, 116>>),
     Token("TOKEN_NUMBER", <<49>>), Token("TOKEN_SEMICOLON", <<59>>),
     Token("TOKEN_RIGHT_BRACE", <<125>>), Token("TOKEN_IDENTIFIER", <<103>>),
     Token("TOKEN_LEFT_PAREN", <<40>>), Token("TOKEN_RIGHT_PAREN", <<41>>),
     Token("TOKEN_LEFT_BRACE", <<123>>), Token("TOKEN_PRINT", <<112, 114, 105, 110, 116>>),
     Token("TOKEN_NUMBER", <<50>>), Token("TOKEN_SEMICOLON", <<59>>),
     Token("TOKEN_RIGHT_BRACE", <<125>>), Token("TOKEN_RIGHT_BRACE", <<125>>),
     Token("TOKEN_CLASS", <<99, 108, 97, 115, 115>>), Token("TOKEN_IDENTIFIER", <<66>>),
     Token("TOKEN_LESS", <<60>>), Token("TOKEN_IDENTIFIER", <<65>>),
     Token("TOKEN_LEFT_BRACE", <<123>>), Token("TOKEN_IDENTIFIER", <<103>>),
     Token("TOKEN_LEFT_PAREN", <<40>>), Token("TOKEN_RIGHT_PAREN", <<41>>),
     Token("TOKEN_LEFT_BRACE", <<123>>), Token("TOKEN_PRINT", <<112, 114, 105, 110, 116>>),
     Token("TOKEN_NUMBER", <<51>>), Token("TOKEN_SEMICOLON", <<59>>),
     Token("TOKEN_RIGHT_BRACE", <<125>>), Token("TOKEN_RIGHT_BRACE", <<125>>),
     Token("TOKEN_VAR", <<118, 97, 114>>), Token("TOKEN_IDENTIFIER", <<98>>),
     Token("TOKEN_EQUAL", <<61>>), Token("TOKEN_IDENTIFIER", <<66>>),
     Token("TOKEN_LEFT_PAREN", <<40>>), Token("TOKEN_RIGHT_PAREN", <<41>>),
     Token("TOKEN_SEMICOLON", <<59>>), Token("TOKEN_IDENTIFIER", <<98>>),
     Token("TOKEN_DOT", <<46>>), Token("TOKEN_IDENTIFIER", <<102>>),
     Token("TOKEN_LEFT_PAREN", <<40>>), Token("TOKEN_RIGHT_PAREN", <<41>>),
     Token("TOKEN_SEMICOLON", <<59>>), Token("TOKEN_IDENTIFIER", <<98>>),
     Token("TOKEN_DOT", <<46>>), Token("TOKEN_IDENTIFIER", <<103>>),
     Token("TOKEN_LEFT_PAREN", <<40>>), Token("TOKEN_RIGHT_PAREN", <<41>>),
     Token("TOKEN_SEMICOLON", <<59>>), Token("TOKEN_IDENTIFIER", <<65>>),
     Token("TOKEN_LEFT_PAREN", <<40>>), Token("TOKEN_RIGHT_PAREN", <<41>>),
     Token("TOKEN_DOT", <<46>>), Token("TOKEN_IDENTIFIER", <<103>>),
     Token("TOKEN_LEFT_PAREN", <<40>>), Token("TOKEN_RIGHT_PAREN", <<41>>),
     Token("TOKEN_SEMICOLON", <<59>>)>>

(* class P { init(n) { this.n = n; return; } } print P(7).n; *)
Source_init_return ==
    <<Token("TOKEN_CLASS", <<99, 108, 97, 115, 115>>), Token("TOKEN_IDENTIFIER", <<80>>),
     Token("TOKEN_LEFT_BRACE", <<123>>), Token("TOKEN_IDENTIFIER", <<105, 110, 105, 116>>),
     Token("TOKEN_LEFT_PAREN", <<40>>), Token("TOKEN_IDENTIFIER", <<110>>),
     Token("TOKEN_RIGHT_PAREN", <<41>>), Token("TOKEN_LEFT_BRACE", <<123>>),
     Token("TOKEN_THIS", <<116, 104, 105, 115>>), Token("TOKEN_DOT", <<46>>),
     Token("TOKEN_IDENTIFIER", <<110>>), Token("TOKEN_EQUAL", <<61>>),
     Token("TOKEN_IDENTIFIER", <<110>>), Token("TOKEN_SEMICOLON", <<59>>),
     Token("TOKEN_RETURN", <<114, 101, 116, 117, 114, 110>>), Token("TOKEN_SEMICOLON", <<59>>),
     Token("TOKEN_RIGHT_BRACE", <<125>>), Token("TOKEN_RIGHT_BRACE", <<125>>),
     Token("TOKEN_PRINT", <<112, 114, 105, 110, 116>>), Token("TOKEN_IDENTIFIER", <<80>>),
     Token("TOKEN_LEFT_PAREN", <<40>>), Token("TOKEN_NUMBER", <<55>>),
     Token("TOKEN_RIGHT_PAREN", <<41>>), Token("TOKEN_DOT", <<46>>),
     Token("TOKEN_IDENTIFIER", <<110>>), Token("TOKEN_SEMICOLON", <<59>>)>>

(* var c = 3; d = 4; *)
Source_undef_write ==
    <<Token("TOKEN_VAR", <<118, 97, 114>>), Token("TOKEN_IDENTIFIER", <<99>>),
     Token("TOKEN_EQUAL", <<61>>), Token("TOKEN_NUMBER", <<51>>), Token("TOKEN_SEMICOLON", <<59>>),
     Token("TOKEN_IDENTIFIER", <<100>>), Token("TOKEN_EQUAL", <<61>>),
     Token("TOKEN_NUMBER", <<52>>), Token("TOKEN_SEMICOLON", <<59>>)>>

(* print d; *)
Source_print_d ==
    <<Token("TOKEN_PRINT", <<112, 114, 105, 110, 116>>), Token("TOKEN_IDENTIFIER", <<100>>),
     Token("TOKEN_SEMICOLON", <<59>>)>>

(* var c = 3; var c = 5; print c; *)
Source_redefine ==
    <<Token("TOKEN_VAR", <<118, 97, 114>>), Token("TOKEN_IDENTIFIER", <<99>>),
     Token("TOKEN_EQUAL", <<61>>), Token("TOKEN_NUMBER", <<51>>), Token("TOKEN_SEMICOLON", <<59>>),
     Token("TOKEN_VAR", <<118, 97, 114>>), Token("TOKEN_IDENTIFIER", <<99>>),
     Token("TOKEN_EQUAL", <<61>>), Token("TOKEN_NUMBER", <<53>>), Token("TOKEN_SEMICOLON", <<59>>),
     Token("TOKEN_PRINT", <<112, 114, 105, 110, 116>>), Token("TOKEN_IDENTIFIER", <<99>>),
     Token("TOKEN_SEMICOLON", <<59>>)>>

(* print c; *)
Source_print_c ==
    <<Token("TOKEN_PRINT", <<112, 114, 105, 110, 116>>), Token("TOKEN_IDENTIFIER", <<99>>),
     Token("TOKEN_SEMICOLON", <<59>>)>>

(* fun f() { f(); } f(); *)
Source_recurse ==
    <<Token("TOKEN_FUN", <<102, 117, 110>>), Token("TOKEN_IDENTIFIER", <<102>>),
     Token("TOKEN_LEFT_PAREN", <<40>>), Token("TOKEN_RIGHT_PAREN", <<41>>),
     Token("TOKEN_LEFT_BRACE", <<123>>), Token("TOKEN_IDENTIFIER", <<102>>),
     Token("TOKEN_LEFT_PAREN", <<40>>), Token("TOKEN_RIGHT_PAREN", <<41>>),
     Token("TOKEN_SEMICOLON", <<59>>), Token("TOKEN_RIGHT_BRACE", <<125>>),
     Token("TOKEN_IDENTIFIER", <<102>>), Token("TOKEN_LEFT_PAREN", <<40>>),
     Token("TOKEN_RIGHT_PAREN", <<41>>), Token("TOKEN_SEMICOLON", <<59>>)>>

(* fun o() { var x = 1; var y = 2; fun m() { fun i() { print x + y; } i(); } m(); } o(); *)
Source_nested ==
    <<Token("TOKEN_FUN", <<102, 117, 110>>), Token("TOKEN_IDENTIFIER", <<111>>),
     Token("TOKEN_LEFT_PAREN", <<40>>), Token("TOKEN_RIGHT_PAREN", <<41>>),
     Token("TOKEN_LEFT_BRACE", <<123>>), Token("TOKEN_VAR", <<118, 97, 114>>),
     Token("TOKEN_IDENTIFIER", <<120>>), Token("TOKEN_EQUAL", <<61>>),
     Token("TOKEN_NUMBER", <<49>>), Token("TOKEN_SEMICOLON", <<59>>),
     Token("TOKEN_VAR", <<118, 97, 114>>), Token("TOKEN_IDENTIFIER", <<121>>),
     Token("TOKEN_EQUAL", <<61>>), Token("TOKEN_NUMBER", <<50>>), Token("TOKEN_SEMICOLON", <<59>>),
     Token("TOKEN_FUN", <<102, 117, 110>>), Token("TOKEN_IDENTIFIER", <<109>>),
     Token("TOKEN_LEFT_PAREN", <<40>>), Token("TOKEN_RIGHT_PAREN", <<41>>),
     Token("TOKEN_LEFT_BRACE", <<123>>), Token("TOKEN_FUN", <<102, 117, 110>>),
     Token("TOKEN_IDENTIFIER", <<105>>), Token("TOKEN_LEFT_PAREN", <<40>>),
     Token("TOKEN_RIGHT_PAREN", <<41>>), Token("TOKEN_LEFT_BRACE", <<123>>),
     Token("TOKEN_PRINT", <<112, 114, 105, 110, 116>>), Token("TOKEN_IDENTIFIER", <<120>>),
     Token("TOKEN_PLUS", <<43>>), Token("TOKEN_IDENTIFIER", <<121>>),
     Token("TOKEN_SEMICOLON", <<59>>), Token("TOKEN_RIGHT_BRACE", <<125>>),
     Token("TOKEN_IDENTIFIER", <<105>>), Token("TOKEN_LEFT_PAREN", <<40>>),
     Token("TOKEN_RIGHT_PAREN", <<41>>), Token("TOKEN_SEMICOLON", <<59>>),
     Token("TOKEN_RIGHT_BRACE", <<125>>), Token("TOKEN_IDENTIFIER", <<109>>),
     Token("TOKEN_LEFT_PAREN", <<40>>), Token("TOKEN_RIGHT_PAREN", <<41>>),
     Token("TOKEN_SEMICOLON", <<59>>), Token("TOKEN_RIGHT_BRACE", <<125>>),
     Token("TOKEN_IDENTIFIER", <<111>>), Token("TOKEN_LEFT_PAREN", <<40>>),
     Token("TOKEN_RIGHT_PAREN", <<41>>), Token("TOKEN_SEMICOLON", <<59>>)>>

(* var g; fun o() { { var x = 1; fun i() { print x; } g = i; } } o(); g(); *)
Source_block_upvalue ==
    <<Token("TOKEN_VAR", <<118, 97, 114>>), Token("TOKEN_IDENTIFIER", <<103>>),
     Token("TOKEN_SEMICOLON", <<59>>), Token("TOKEN_FUN", <<102, 117, 110>>),
     Token("TOKEN_IDENTIFIER", <<111>>), Token("TOKEN_LEFT_PAREN", <<40>>),
     Token("TOKEN_RIGHT_PAREN", <<41>>), Token("TOKEN_LEFT_BRACE", <<123>>),
     Token("TOKEN_LEFT_BRACE", <<123>>), Token("TOKEN_VAR", <<118, 97, 114>>),
     Token("TOKEN_IDENTIFIER", <<120>>), Token("TOKEN_EQUAL", <<61>>),
     Token("TOKEN_NUMBER", <<49>>), Token("TOKEN_SEMICOLON", <<59>>),
     Token("TOKEN_FUN", <<102, 117, 110>>), Token("TOKEN_IDENTIFIER", <<105>>),
     Token("TOKEN_LEFT_PAREN", <<40>>), Token("TOKEN_RIGHT_PAREN", <<41>>),
     Token("TOKEN_LEFT_BRACE", <<123>>), Token("TOKEN_PRINT", <<112, 114, 105, 110, 116>>),
     Token("TOKEN_IDENTIFIER", <<120>>), Token("TOKEN_SEMICOLON", <<59>>),
     Token("TOKEN_RIGHT_BRACE", <<125>>), Token("TOKEN_IDENTIFIER", <<103>>),
     Token("TOKEN_EQUAL", <<61>>), Token("TOKEN_IDENTIFIER", <<105>>),
     Token("TOKEN_SEMICOLON", <<59>>), Token("TOKEN_RIGHT_BRACE", <<125>>),
     Token("TOKEN_RIGHT_BRACE", <<125>>), Token("TOKEN_IDENTIFIER", <<111>>),
     Token("TOKEN_LEFT_PAREN", <<40>>), Token("TOKEN_RIGHT_PAREN", <<41>>),
     Token("TOKEN_SEMICOLON", <<59>>), Token("TOKEN_IDENTIFIER", <<103>>),
     Token("TOKEN_LEFT_PAREN", <<40>>), Token("TOKEN_RIGHT_PAREN", <<41>>),
     Token("TOKEN_SEMICOLON", <<59>>)>>

(* var s; { var x = 1; fun i() { print x; } } *)
Source_shifted_block ==
    <<Token("TOKEN_VAR", <<118, 97, 114>>), Token("TOKEN_IDENTIFIER", <<115>>),
     Token("TOKEN_SEMICOLON", <<59>>), Token("TOKEN_LEFT_BRACE", <<123>>),
     Token("TOKEN_VAR", <<118, 97, 114>>), Token("TOKEN_IDENTIFIER", <<120>>),
     Token("TOKEN_EQUAL", <<61>>), Token("TOKEN_NUMBER", <<49>>), Token("TOKEN_SEMICOLON", <<59>>),
     Token("TOKEN_FUN", <<102, 117, 110>>), Token("TOKEN_IDENTIFIER", <<105>>),
     Token("TOKEN_LEFT_PAREN", <<40>>), Token("TOKEN_RIGHT_PAREN", <<41>>),
     Token("TOKEN_LEFT_BRACE", <<123>>), Token("TOKEN_PRINT", <<112, 114, 105, 110, 116>>),
     Token("TOKEN_IDENTIFIER", <<120>>), Token("TOKEN_SEMICOLON", <<59>>),
     Token("TOKEN_RIGHT_BRACE", <<125>>), Token("TOKEN_RIGHT_BRACE", <<125>>)>>

(* var a = 1; { var b = 2; print b; } *)
Source_block_local ==
    <<Token("TOKEN_VAR", <<118, 97, 114>>), Token("TOKEN_IDENTIFIER", <<97>>),
     Token("TOKEN_EQUAL", <<61>>), Token("TOKEN_NUMBER", <<49>>), Token("TOKEN_SEMICOLON", <<59>>),
     Token("TOKEN_LEFT_BRACE", <<123>>), Token("TOKEN_VAR", <<118, 97, 114>>),
     Token("TOKEN_IDENTIFIER", <<98>>), Token("TOKEN_EQUAL", <<61>>), Token("TOKEN_NUMBER", <<50>>),
     Token("TOKEN_SEMICOLON", <<59>>), Token("TOKEN_PRINT", <<112, 114, 105, 110, 116>>),
     Token("TOKEN_IDENTIFIER", <<98>>), Token("TOKEN_SEMICOLON", <<59>>),
     Token("TOKEN_RIGHT_BRACE", <<125>>)>>

(* fun add(a, b) { return a + b; } print add(1, 2); *)
Source_call_args ==
    <<Token("TOKEN_FUN", <<102, 117, 110>>), Token("TOKEN_IDENTIFIER", <<97, 100, 100>>),
     Token("TOKEN_LEFT_PAREN", <<40>>), Token("TOKEN_IDENTIFIER", <<97>>),
     Token("TOKEN_COMMA", <<44>>), Token("TOKEN_IDENTIFIER", <<98>>),
     Token("TOKEN_RIGHT_PAREN", <<41>>), Token("TOKEN_LEFT_BRACE", <<123>>),
     Token("TOKEN_RETURN", <<114, 101, 116, 117, 114, 110>>), Token("TOKEN_IDENTIFIER", <<97>>),
     Token("TOKEN_PLUS", <<43>>), Token("TOKEN_IDENTIFIER", <<98>>),
     Token("TOKEN_SEMICOLON", <<59>>), Token("TOKEN_RIGHT_BRACE", <<125>>),
     Token("TOKEN_PRINT", <<112, 114, 105, 110, 116>>), Token("TOKEN_IDENTIFIER", <<97, 100, 100>>),
     Token("TOKEN_LEFT_PAREN", <<40>>), Token("TOKEN_NUMBER", <<49>>), Token("TOKEN_COMMA", <<44>>),
     Token("TOKEN_NUMBER", <<50>>), Token("TOKEN_RIGHT_PAREN", <<41>>),
     Token("TOKEN_SEMICOLON", <<59>>)>>

(* class F { m() { print 1; } } fun g() { print 2; } var f = F(); f.m(); f.m = g; f.m();    *)
(* f.x();                                                                                   *)
Source_shadow ==
    <<Token("TOKEN_CLASS", <<99, 108, 97, 115, 115>>), Token("TOKEN_IDENTIFIER", <<70>>),
     Token("TOKEN_LEFT_BRACE", <<123>>), Token("TOKEN_IDENTIFIER", <<109>>),
     Token("TOKEN_LEFT_PAREN", <<40>>), Token("TOKEN_RIGHT_PAREN", <<41>>),
     Token("TOKEN_LEFT_BRACE", <<123>>), Token("TOKEN_PRINT", <<112, 114, 105, 110, 116>>),
     Token("TOKEN_NUMBER", <<49>>), Token("TOKEN_SEMICOLON", <<59>>),
     Token("TOKEN_RIGHT_BRACE", <<125>>), Token("TOKEN_RIGHT_BRACE", <<125>>),
     Token("TOKEN_FUN", <<102, 117, 110>>), Token("TOKEN_IDENTIFIER", <<103>>),
     Token("TOKEN_LEFT_PAREN", <<40>>), Token("TOKEN_RIGHT_PAREN", <<41>>),
     Token("TOKEN_LEFT_BRACE", <<123>>), Token("TOKEN_PRINT", <<112, 114, 105, 110, 116>>),
     Token("TOKEN_NUMBER", <<50>>), Token("TOKEN_SEMICOLON", <<59>>),
     Token("TOKEN_RIGHT_BRACE", <<125>>), Token("TOKEN_VAR", <<118, 97, 114>>),
     Token("TOKEN_IDENTIFIER", <<102>>), Token("TOKEN_EQUAL", <<61>>),
     Token("TOKEN_IDENTIFIER", <<70>>), Token("TOKEN_LEFT_PAREN", <<40>>),
     Token("TOKEN_RIGHT_PAREN", <<41>>), Token("TOKEN_SEMICOLON", <<59>>),
     Token("TOKEN_IDENTIFIER", <<102>>), Token("TOKEN_DOT", <<46>>),
     Token("TOKEN_IDENTIFIER", <<109>>), Token("TOKEN_LEFT_PAREN", <<40>>),
     Token("TOKEN_RIGHT_PAREN", <<41>>), Token("TOKEN_SEMICOLON", <<59>>),
     Token("TOKEN_IDENTIFIER", <<102>>), Token("TOKEN_DOT", <<46>>),
     Token("TOKEN_IDENTIFIER", <<109>>), Token("TOKEN_EQUAL", <<61>>),
     Token("TOKEN_IDENTIFIER", <<103>>), Token("TOKEN_SEMICOLON", <<59>>),
     Token("TOKEN_IDENTIFIER", <<102>>), Token("TOKEN_DOT", <<46>>),
     Token("TOKEN_IDENTIFIER", <<109>>), Token("TOKEN_LEFT_PAREN", <<40>>),
     Token("TOKEN_RIGHT_PAREN", <<41>>), Token("TOKEN_SEMICOLON", <<59>>),
     Token("TOKEN_IDENTIFIER", <<102>>), Token("TOKEN_DOT", <<46>>),
     Token("TOKEN_IDENTIFIER", <<120>>), Token("TOKEN_LEFT_PAREN", <<40>>),
     Token("TOKEN_RIGHT_PAREN", <<41>>), Token("TOKEN_SEMICOLON", <<59>>)>>

(* var 1 = 2; print 3; *)
Source_bad_then_good ==
    <<Token("TOKEN_VAR", <<118, 97, 114>>), Token("TOKEN_NUMBER", <<49>>),
     Token("TOKEN_EQUAL", <<61>>), Token("TOKEN_NUMBER", <<50>>), Token("TOKEN_SEMICOLON", <<59>>),
     Token("TOKEN_PRINT", <<112, 114, 105, 110, 116>>), Token("TOKEN_NUMBER", <<51>>),
     Token("TOKEN_SEMICOLON", <<59>>)>>

(* a * b = c; *)
Source_bad_assign ==
    <<Token("TOKEN_IDENTIFIER", <<97>>), Token("TOKEN_STAR", <<42>>),
     Token("TOKEN_IDENTIFIER", <<98>>), Token("TOKEN_EQUAL", <<61>>),
     Token("TOKEN_IDENTIFIER", <<99>>), Token("TOKEN_SEMICOLON", <<59>>)>>

(* a + b.c = 1; *)
Source_bad_prop_assign ==
    <<Token("TOKEN_IDENTIFIER", <<97>>), Token("TOKEN_PLUS", <<43>>),
     Token("TOKEN_IDENTIFIER", <<98>>), Token("TOKEN_DOT", <<46>>),
     Token("TOKEN_IDENTIFIER", <<99>>), Token("TOKEN_EQUAL", <<61>>), Token("TOKEN_NUMBER", <<49>>),
     Token("TOKEN_SEMICOLON", <<59>>)>>

(* a = b.c = 1; *)
Source_chain_assign ==
    <<Token("TOKEN_IDENTIFIER", <<97>>), Token("TOKEN_EQUAL", <<61>>),
     Token("TOKEN_IDENTIFIER", <<98>>), Token("TOKEN_DOT", <<46>>),
     Token("TOKEN_IDENTIFIER", <<99>>), Token("TOKEN_EQUAL", <<61>>), Token("TOKEN_NUMBER", <<49>>),
     Token("TOKEN_SEMICOLON", <<59>>)>>

Source(name) ==
    CASE name = "undef_read" -> Source_undef_read
      [] name = "print_a" -> Source_print_a
      [] name = "bad_var" -> Source_bad_var
      [] name = "bad_expr" -> Source_bad_expr
      [] name = "fun_arity" -> Source_fun_arity
      [] name = "class_args" -> Source_class_args
      [] name = "method_arity" -> Source_method_arity
      [] name = "init_arity" -> Source_init_arity
      [] name = "leak_upvalue" -> Source_leak_upvalue
      [] name = "call_g" -> Source_call_g
      [] name = "shared_upvalue" -> Source_shared_upvalue
      [] name = "print_sum" -> Source_print_sum
      [] name = "while_loop" -> Source_while_loop
      [] name = "for_loop" -> Source_for_loop
      [] name = "and_expr" -> Source_and_expr
      [] name = "concat" -> Source_concat
      [] name = "instance" -> Source_instance
      [] name = "closure" -> Source_closure
      [] name = "inherit" -> Source_inherit
      [] name = "init_return" -> Source_init_return
      [] name = "undef_write" -> Source_undef_write
      [] name = "print_d" -> Source_print_d
      [] name = "redefine" -> Source_redefine
      [] name = "print_c" -> Source_print_c
      [] name = "recurse" -> Source_recurse
      [] name = "nested" -> Source_nested
      [] name = "block_upvalue" -> Source_block_upvalue
      [] name = "shifted_block" -> Source_shifted_block
      [] name = "block_local" -> Source_block_local
      [] name = "call_args" -> Source_call_args
      [] name = "shadow" -> Source_shadow
      [] name = "bad_then_good" -> Source_bad_then_good
      [] name = "bad_assign" -> Source_bad_assign
      [] name = "bad_prop_assign" -> Source_bad_prop_assign
      [] name = "chain_assign" -> Source_chain_assign

(* The lines of one session of the REPL. *)
SessionLines(s) ==
    CASE s = "errors" -> {"undef_read", "undef_write", "print_a", "bad_var", "bad_expr", "bad_then_good"}
      [] s = "calls" -> {"fun_arity", "class_args", "method_arity", "init_arity", "call_args"}
      [] s = "upvalues" -> {"leak_upvalue", "call_g", "shared_upvalue"}
      [] s = "loops" -> {"print_sum", "while_loop", "for_loop", "and_expr"}
      [] s = "objects" -> {"concat", "instance", "closure"}
      [] s = "classes" -> {"inherit", "init_return", "shadow"}
      [] s = "globals" -> {"undef_write", "print_d", "redefine", "print_c"}
      [] s = "deep" -> {"recurse", "nested"}
      [] s = "blocks" -> {"block_upvalue", "shifted_block", "block_local"}
      [] s = "assign" -> {"bad_assign", "bad_prop_assign", "chain_assign"}

Sessions == {"errors", "calls", "upvalues", "loops", "objects", "classes", "globals", "deep",
     "blocks", "assign"}

(***************************************************************************)
(* The state machine.  main() calls init_vm() and then interpret() on each *)
(* line read; pc is "idle" between two calls of interpret(), "run" inside  *)
(* the dispatch loop of run(), and "undefined" once the C program has run  *)
(* into undefined behaviour: nothing is known of what it does from there.  *)
(* out and errs hold what the current call of interpret() wrote, gclog the *)
(* collections of the last step; compiling is the chain of compilers and   *)
(* the parser while compile() is followed a statement at a time.           *)
(***************************************************************************)
ZeroParser ==
    [toks |-> <<>>, pos |-> 1, current |-> EofToken, previous |-> EofToken,
     hadError |-> FALSE, panicMode |-> FALSE]

ZeroVM ==
    [stack |-> <<>>, stack_top |-> 0, frames |-> <<>>, frame_count |-> 0,
     objects |-> <<>>, strings |-> EmptyTable, globals |-> EmptyTable,
     open_upvalues |-> <<>>, gray_stack |-> {},
     init_string |-> NULL, bytes_allocated |-> 0, next_gc |-> 0]

World(c) ==
    [vm |-> vm, heap |-> heap, out |-> out, errs |-> errs, stress |-> stress,
     gclog |-> <<>>, cc |-> <<>>, cls |-> <<>>, parser |-> ZeroParser,
     ub |-> FALSE, ret |-> 0, clock |-> c]

Commit(w) ==
    /\ vm' = w.vm
    /\ heap' = w.heap
    /\ out' = w.out
    /\ errs' = w.errs
    /\ gclog' = w.gclog

(* Between two calls of compile() no compiler is at work: current is NULL. *)
NotCompiling == [cc |-> <<>>, parser |-> ZeroParser, fed |-> 0]

(* The state main() reaches before the first line is read; the build is    *)
(* with or without DEBUG_STRESS_GC.                                        *)
Init ==
    \E s \in BOOLEAN, ss \in Sessions :
        \E w \in {init_vm_([vm |-> ZeroVM, heap |-> <<>>, out |-> <<>>, errs |-> <<>>,
                           stress |-> s, gclog |-> <<>>, cc |-> <<>>, cls |-> <<>>,
                           parser |-> ZeroParser, ub |-> FALSE, ret |-> 0, clock |-> 0])} :
            /\ vm = w.vm
            /\ heap = w.heap
            /\ out = <<>>
            /\ errs = <<>>
            /\ gclog = w.gclog
            /\ pc = "idle"
            /\ result = "NONE"
            /\ stress = s
            /\ runs = 0
            /\ session = ss
            /\ prog = "none"
            /\ compiling = NotCompiling

(* What a call of interpret() or a turn of the loop of run() leaves, and    *)
(* where the program is then: `more` is returned while run() goes on.      *)
Outcome(w, more) ==
    /\ Commit(w)
    /\ pc' = IF w.ub THEN "undefined" ELSE IF w.ret = more THEN "run" ELSE "idle"
    /\ result' = IF w.ub \/ w.ret = more THEN "NONE" ELSE w.ret

(* interpret(source) up to run(). *)
Interpret(name) ==
    /\ pc = "idle"
    /\ runs < MaxRuns
    /\ Outcome(interpret_([World(0) EXCEPT !.out = <<>>, !.errs = <<>>], Source(name)), "RUN")
    /\ runs' = runs + 1
    /\ prog' = name
    /\ UNCHANGED <<stress, session, compiling>>

(* The division of the turn is exact: the numbers held are integers. *)
Exact(w) == (IF w.ub THEN TRUE ELSE w.ret # "NOT_AN_INTEGER") /\ Outcome(w, "CONTINUE")

(* One turn of the loop of run(); c is what clock() would return. *)
Step(c) ==
    /\ pc = "run"
    /\ Exact(run_step_(World(c)))
    /\ UNCHANGED <<stress, runs, session, prog, compiling>>

ClockValues == {0}

(* The bytes left before the collector runs, once Churn has acted: at      *)
(* least the slack chosen, and less than one failed line more.             *)
ChurnSlack == {200, 400, 500, 800, 1100, 1400}

(* What interpret() leaves on vm.objects when the line is `;`: the         *)
(* function of the line, whose chunk holds OP_NIL OP_RETURN.               *)
FailedLineBytes ==
    SIZEOF_OBJECT_FUNCTION + GROW_CAPACITY(0) + SIZEOF_INT * GROW_CAPACITY(0)

(* The lines `;` of the session before the lines looked at: interpret()    *)
(* reports "Expected expression.", returns INTERPRET_COMPILE_ERROR and     *)
(* changes nothing but the heap, where the function of the line stays      *)
(* until a collection frees it.  A build without DEBUG_STRESS_GC collects  *)
(* only once vm.next_gc bytes are allocated; n such lines bring the heap   *)
(* there.  Their n functions, which nothing refers to, are held as one     *)
(* entry of vm.objects whose bytes are those of all of them.               *)
Churn(slack) ==
    LET n      == (vm.next_gc - vm.bytes_allocated - slack) \div FailedLineBytes
        object == Len(heap) + 1
    IN  /\ pc = "idle"
        /\ runs = 0
        /\ ~stress
        /\ \A o \in DOMAIN heap : heap[o].type # "FAILED_LINES"
        /\ n > 0
        /\ heap' = Append(heap, [type |-> "FAILED_LINES", is_marked |-> FALSE,
                                 freed |-> FALSE, bytes |-> n * FailedLineBytes])
        /\ vm' = [vm EXCEPT !.objects = <<object>> \o vm.objects,
                            !.bytes_allocated = vm.bytes_allocated + n * FailedLineBytes]
        /\ out' = <<>>
        /\ errs' = <<"Expected expression.">>
        /\ result' = "INTERPRET_COMPILE_ERROR"
        /\ prog' = "failed_lines"
        /\ gclog' = <<>>
        /\ UNCHANGED <<pc, stress, runs, session, compiling>>

Next ==
    \/ \E name \in SessionLines(session) : Interpret(name)
    \/ \E c \in ClockValues : Step(c)
    \/ \E slack \in ChurnSlack : Churn(slack)

Spec == Init /\ [][Next]_vars

(***************************************************************************)
(* compile() followed a statement at a time on two long lines: one         *)
(* declares more locals in a function than a frame holds, the other has a  *)
(* function refer to more variables of its enclosing functions than it has *)
(* upvalues.  pc is "compile"; compiling.fed counts the statements read.   *)
(***************************************************************************)
(* The name of the k-th variable of the function whose letter is `c`. *)
VarName(c, k) == <<c, 97 + (k \div 16), 97 + (k % 16)>>

(* The locals a function declares before it declares a function. *)
FreeSlots == UINT8_COUNT - 2

(* How many statements are read after a limit is met. *)
MaxOver == 2

VarStatement(name) ==
    <<Token("TOKEN_VAR", <<118, 97, 114>>), Token("TOKEN_IDENTIFIER", name),
      Token("TOKEN_SEMICOLON", <<59>>)>>

UseStatement(name) ==
    <<Token("TOKEN_IDENTIFIER", name), Token("TOKEN_SEMICOLON", <<59>>)>>

FunHead(name) ==
    <<Token("TOKEN_FUN", <<102, 117, 110>>), Token("TOKEN_IDENTIFIER", name),
      Token("TOKEN_LEFT_PAREN", <<40>>), Token("TOKEN_RIGHT_PAREN", <<41>>),
      Token("TOKEN_LEFT_BRACE", <<123>>)>>

(* fun fa() { var aab; var aac; ... : one declaration more than fit, and   *)
(* MaxOver in all.                                                         *)
ManyLocals(p) ==
    IF p = 0 THEN FunHead(VarName(102, 0))
    ELSE IF p <= UINT8_COUNT - 1 + MaxOver THEN VarStatement(VarName(97, p))
    ELSE <<>>

(* fun fa() { var aab; ... fun fb() { var bab; ... fun fc() { bab; ...     *)
(* aab; aac; bab; aad; aae; : fc refers to the FreeSlots variables of fb,  *)
(* to two of fa, to one it has referred to, and to MaxOver more of fa.     *)
ManyUpvalues(p) ==
    LET inB == p - (FreeSlots + 1)
        inC == p - 2 * (FreeSlots + 1)
    IN  IF p = 0 THEN FunHead(VarName(102, 0))
        ELSE IF p <= FreeSlots THEN VarStatement(VarName(97, p))
        ELSE IF inB = 0 THEN FunHead(VarName(102, 1))
        ELSE IF inB <= FreeSlots THEN VarStatement(VarName(98, inB))
        ELSE IF inC = 0 THEN FunHead(VarName(102, 2))
        ELSE IF inC <= FreeSlots THEN UseStatement(VarName(98, inC))
        ELSE IF inC <= UINT8_COUNT THEN UseStatement(VarName(97, inC - FreeSlots))
        ELSE IF inC = UINT8_COUNT + 1 THEN UseStatement(VarName(98, 1))
        ELSE IF inC <= UINT8_COUNT + 1 + MaxOver
        THEN UseStatement(VarName(97, inC - FreeSlots - 1))
        ELSE <<>>

LongLines == {"many_locals", "many_upvalues"}

(* The statement compile() reads next. *)
NextStatement ==
    IF prog = "many_locals" THEN ManyLocals(compiling.fed) ELSE ManyUpvalues(compiling.fed)

(* The compiler about to read `toks`: advance() has made the first token   *)
(* parser.current.                                                         *)
Feed(toks) ==
    advance([World(0) EXCEPT !.cc = compiling.cc,
                             !.parser = [compiling.parser EXCEPT !.toks = toks, !.pos = 1]])

Fed(w) ==
    /\ Commit(w)
    /\ compiling' = [cc |-> w.cc, parser |-> w.parser, fed |-> compiling.fed + 1]
    /\ pc' = IF w.ub THEN "undefined" ELSE "compile"
    /\ UNCHANGED <<result, stress, runs, session, prog>>

(* compile() up to its loop, on one of the two lines. *)
LimitsInit ==
    \E line \in LongLines :
        \E w \in {init_compiler_(init_vm_([vm |-> ZeroVM, heap |-> <<>>, out |-> <<>>,
                           errs |-> <<>>, stress |-> FALSE, gclog |-> <<>>, cc |-> <<>>,
                           cls |-> <<>>, parser |-> ZeroParser, ub |-> FALSE, ret |-> 0,
                           clock |-> 0]), "TYPE_SCRIPT")} :
            /\ vm = w.vm
            /\ heap = w.heap
            /\ out = <<>>
            /\ errs = <<>>
            /\ gclog = <<>>
            /\ pc = "compile"
            /\ result = "NONE"
            /\ stress = FALSE
            /\ runs = 0
            /\ session = "limits"
            /\ prog = line
            /\ compiling = [cc |-> w.cc, parser |-> w.parser, fed |-> 0]

(* declaration() on `var name;`. *)
Declare ==
    /\ pc = "compile"
    /\ NextStatement # <<>>
    /\ Head(NextStatement).type = "TOKEN_VAR"
    /\ Fed(declaration_(Feed(NextStatement)))

(* declaration() on `name;`. *)
Refer ==
    /\ pc = "compile"
    /\ NextStatement # <<>>
    /\ Head(NextStatement).type = "TOKEN_IDENTIFIER"
    /\ Fed(declaration_(Feed(NextStatement)))

(* declaration() on `fun name() {`, up to the call of block() by           *)
(* function().                                                             *)
Open ==
    /\ pc = "compile"
    /\ NextStatement # <<>>
    /\ Head(NextStatement).type = "TOKEN_FUN"
    /\ Fed(function_head_(init_compiler_(mark_initialized(
           parse_variable_(match(Feed(NextStatement), "TOKEN_FUN"), "Expected function name.")),
           "TYPE_FUNCTION")))

LimitsNext == Declare \/ Refer \/ Open

SpecLimits == LimitsInit /\ [][LimitsNext]_vars

(***************************************************************************)
(* compile() followed a statement at a time inside the block of an `if`    *)
(* and of a `while`: the compiler has read `if (true) {`, or `while (true) *)
(* {`, and a number of statements `nil;`; it reads up to MaxBody more      *)
(* statements and the brace that ends the block.  compiling.held is what   *)
(* if_statement() or while_statement() holds in its variables.             *)
(***************************************************************************)
MaxBody == 3

JumpLines == {"long_if", "long_while"}

(* The statements `nil;` read before the first state: none, or as many as  *)
(* bring the loop or the jump near UINT16_MAX bytes.                       *)
BodySizes == {0, (UINT16_MAX - 13) \div 2, (UINT16_MAX - 7) \div 2}

IfHead ==
    <<Token("TOKEN_IF", <<105, 102>>), Token("TOKEN_LEFT_PAREN", <<40>>),
      Token("TOKEN_TRUE", <<116, 114, 117, 101>>), Token("TOKEN_RIGHT_PAREN", <<41>>),
      Token("TOKEN_LEFT_BRACE", <<123>>)>>

WhileHead ==
    <<Token("TOKEN_WHILE", <<119, 104, 105, 108, 101>>), Token("TOKEN_LEFT_PAREN", <<40>>),
      Token("TOKEN_TRUE", <<116, 114, 117, 101>>), Token("TOKEN_RIGHT_PAREN", <<41>>),
      Token("TOKEN_LEFT_BRACE", <<123>>)>>

NilStatement == <<Token("TOKEN_NIL", <<110, 105, 108>>), Token("TOKEN_SEMICOLON", <<59>>)>>

NotNilStatement ==
    <<Token("TOKEN_BANG", <<33>>), Token("TOKEN_NIL", <<110, 105, 108>>),
      Token("TOKEN_SEMICOLON", <<59>>)>>

BlockEnd == <<Token("TOKEN_RIGHT_BRACE", <<125>>)>>

(* The capacity write_chunk() has given an array that holds `count`. *)
RECURSIVE GrownTo(_, _)
GrownTo(capacity, count) ==
    IF capacity >= count THEN capacity ELSE GrownTo(GROW_CAPACITY(capacity), count)

(* The chunk of the compiler after n statements `nil;`, each of which      *)
(* emits OP_NIL and OP_POP.                                                *)
AfterNilStatements(w, n) ==
    LET fn == Current(w).function
        chunk    == w.heap[fn].chunk
        capacity == GrownTo(chunk.capacity, chunk.count + 2 * n)
    IN  [w EXCEPT !.heap[fn].chunk.code =
                        chunk.code \o SubSeq([i \in 1..(2 * n) |->
                                                 IF i % 2 = 1 THEN OP_NIL ELSE OP_POP], 1, 2 * n),
                  !.heap[fn].chunk.count = chunk.count + 2 * n,
                  !.heap[fn].chunk.capacity = capacity,
                  !.vm.bytes_allocated = w.vm.bytes_allocated
                        + (1 + SIZEOF_INT) * (capacity - chunk.capacity)]

JumpsInit ==
    \E line \in JumpLines, n \in BodySizes :
        \E w \in {compile_head_(init_vm_([vm |-> ZeroVM, heap |-> <<>>, out |-> <<>>,
                           errs |-> <<>>, stress |-> FALSE, gclog |-> <<>>, cc |-> <<>>,
                           cls |-> <<>>, parser |-> ZeroParser, ub |-> FALSE, ret |-> 0,
                           clock |-> 0]), IF line = "long_if" THEN IfHead ELSE WhileHead)} :
            \E body \in {AfterNilStatements(w, n)} :
                /\ vm = body.vm
                /\ heap = body.heap
                /\ out = <<>>
                /\ errs = <<>>
                /\ gclog = <<>>
                /\ pc = "compile"
                /\ result = "NONE"
                /\ stress = FALSE
                /\ runs = 0
                /\ session = "jumps"
                /\ prog = line
                /\ compiling = [cc |-> body.cc, parser |-> body.parser, fed |-> 0,
                                held |-> w.ret, open |-> TRUE]

JumpFed(w, open) ==
    /\ Commit(w)
    /\ compiling' = [compiling EXCEPT !.cc = w.cc, !.parser = w.parser,
                                      !.fed = compiling.fed + 1, !.open = open]
    /\ pc' = IF w.ub THEN "undefined" ELSE "compile"
    /\ UNCHANGED <<result, stress, runs, session, prog>>

(* declaration() on a statement of the block. *)
BodyStatement(toks) ==
    /\ pc = "compile"
    /\ compiling.open
    /\ compiling.fed < MaxBody
    /\ JumpFed(declaration_(Feed(toks)), TRUE)

(* The brace that ends the block of the `if`: the rest of if_statement(). *)
CloseIf ==
    /\ pc = "compile"
    /\ compiling.open
    /\ prog = "long_if"
    /\ JumpFed(if_tail_(Feed(BlockEnd), compiling.held), FALSE)

(* The brace that ends the block of the `while`: the rest of               *)
(* while_statement().                                                      *)
CloseWhile ==
    /\ pc = "compile"
    /\ compiling.open
    /\ prog = "long_while"
    /\ JumpFed(while_tail_(Feed(BlockEnd), compiling.held[1], compiling.held[2]), FALSE)

JumpsNext ==
    \/ \E toks \in {NilStatement, NotNilStatement} : BodyStatement(toks)
    \/ CloseIf
    \/ CloseWhile

SpecJumps == JumpsInit /\ [][JumpsNext]_vars

(***************************************************************************)
(* The properties.                                                         *)
(***************************************************************************)
(* The names a table binds, each with its value. *)
Bindings(table) ==
    {<<table.entries[i].key, table.entries[i].value>> :
        i \in {j \in DOMAIN table.entries : table.entries[j].key # NULL}}

(* The characters of the names a table binds. *)
BoundNames(h, table) == {h[b[1]].chars : b \in Bindings(table)}

(* No frame, no value on the stack, no open upvalue. *)
PostReset(v) == v.frame_count = 0 /\ v.stack_top = 0 /\ v.open_upvalues = <<>>

(* C1: when interpret() returns INTERPRET_RUNTIME_ERROR the VM has no      *)
(* frame, an empty value stack and no open upvalue, and every global       *)
(* defined before the failing instruction still has its value.             *)
C1_RuntimeErrorResets ==
    [][result' = "INTERPRET_RUNTIME_ERROR" =>
          /\ PostReset(vm')
          /\ Bindings(vm.globals) \subseteq Bindings(vm'.globals)
          /\ \A b \in Bindings(vm.globals) : heap'[b[1]] = heap[b[1]]]_vars

(* `var a = 1; print b;` has failed at `print b`, with a defined. *)
C1_Witness ==
    /\ result = "INTERPRET_RUNTIME_ERROR"
    /\ prog = "undef_read"
    /\ PostReset(vm)
    /\ <<97>> \in BoundNames(heap, vm.globals)

(* What call() and call_value() report of a wrong number of arguments. *)
ArityMessages ==
    {"Expected %d arguments but got %d instead.", "Expected 0 arguments but got %d."}

(* C2: a CALL or INVOKE whose argument count is not what the callee        *)
(* accepts ends the run: interpret() returns INTERPRET_RUNTIME_ERROR and   *)
(* no later instruction is dispatched.                                     *)
C2_ArityErrorStops ==
    [][(pc = "run" /\ Len(errs') > Len(errs) /\ errs'[Len(errs')] \in ArityMessages)
          => (pc' = "idle" /\ result' = "INTERPRET_RUNTIME_ERROR")]_vars

(* `class A {} A(1); print 1;`: the error was reported and run() went on,  *)
(* with no frame left to read.                                             *)
C2_Witness ==
    /\ prog = "class_args"
    /\ errs = <<"Expected 0 arguments but got %d.">>
    /\ pc = "undefined"

(* C3: when the compiler reports an error, interpret() returns             *)
(* INTERPRET_COMPILE_ERROR and pushes no frame and runs no instruction:    *)
(* frame_count, stack_top and the globals are what they were.              *)
C3_CompileErrorLeavesVM ==
    [][(pc = "idle" /\ runs' = runs + 1 /\ errs' # <<>>) =>
          /\ pc' = "idle"
          /\ result' = "INTERPRET_COMPILE_ERROR"
          /\ vm'.frame_count = vm.frame_count
          /\ vm'.stack_top = vm.stack_top
          /\ vm'.globals = vm.globals]_vars

(* `var = 1;` was refused after `var a = 1; print b;` had defined a. *)
C3_Witness ==
    /\ prog = "bad_var"
    /\ runs = 2
    /\ result = "INTERPRET_COMPILE_ERROR"
    /\ errs # <<>>
    /\ <<97>> \in BoundNames(heap, vm.globals)

(* C4: no collection frees an object that a root reaches: the objects of   *)
(* the list that were reachable when collect_garbage() began are in the    *)
(* list when it ends.                                                      *)
C4_ReachableSurvives ==
    \A i \in DOMAIN gclog :
        (gclog[i].reachable \cap SeqRange(gclog[i].before)) \subseteq SeqRange(gclog[i].after)

(* A collection that freed objects and kept the reachable ones, the        *)
(* globals among them.                                                     *)
C4_Witness ==
    \E i \in DOMAIN gclog :
        /\ Len(gclog[i].after) < Len(gclog[i].before)
        /\ TableObjects(vm.globals) # {}
        /\ TableObjects(vm.globals) \subseteq gclog[i].reachable
        /\ TableObjects(vm.globals) \subseteq SeqRange(gclog[i].after)

(* The strings of the object list. *)
LiveStrings == {o \in SeqRange(vm.objects) : heap[o].type = "OBJECT_STRING"}

(* The keys of a table. *)
TableKeys(table) == {b[1] : b \in Bindings(table)}

(* C5: no two strings of the heap, and no two keys of vm.strings, have the *)
(* same length and bytes: copy_string and take_string return the string    *)
(* that is there as long as it was not collected.                          *)
C5_StringsInterned ==
    pc # "undefined" =>
        /\ \A a, b \in LiveStrings :
              (heap[a].length = heap[b].length /\ heap[a].chars = heap[b].chars) => a = b
        /\ \A a, b \in TableKeys(vm.strings) :
              (heap[a].length = heap[b].length /\ heap[a].chars = heap[b].chars) => a = b

(* `print a;` after `var a = 1; print b;`: the name a of the second line   *)
(* is the string the first line bound, so the global is found.             *)
C5_Witness ==
    /\ prog = "print_a"
    /\ runs = 2
    /\ result = "INTERPRET_OK"
    /\ Len(out) = 1
    /\ Cardinality({o \in LiveStrings : heap[o].chars = <<97>>}) = 1

(* The closures of the object list. *)
LiveClosures == {o \in SeqRange(vm.objects) : heap[o].type = "OBJECT_CLOSURE"}

(* The upvalues a closure holds. *)
UpvaluesOf(c) == {heap[c].upvalues[i] : i \in 1..heap[c].upvalue_count} \ {NULL}

(* The upvalue points at a slot of the stack that is not live. *)
PointsAboveTop(u) == ~heap[u].location.own /\ heap[u].location.slot >= vm.stack_top

(* C6: between two calls of interpret(), also after a runtime error, no    *)
(* upvalue of a closure points at a stack slot at or above stack_top: it   *)
(* was closed when the slot stopped being live.                            *)
C6_NoUpvalueAboveTop ==
    pc = "idle" => \A c \in LiveClosures : \A u \in UpvaluesOf(c) : ~PointsAboveTop(u)

(* `g();` ran after the line that stored inner in g failed at nothing():   *)
(* the upvalue of g still points at the slot x had.                        *)
C6_Witness ==
    /\ prog = "call_g"
    /\ runs = 2
    /\ pc = "idle"
    /\ result # "INTERPRET_COMPILE_ERROR"
    /\ \E c \in LiveClosures : \E u \in UpvaluesOf(c) : PointsAboveTop(u)

(* C7: two closures that capture the same local hold one upvalue (the list *)
(* of open upvalues has one upvalue per slot), so what one closure or the  *)
(* declaring function writes the other reads, before and after the         *)
(* variable is closed: in `var ga; var gb; fun make() { var x = 0; fun a() *)
(* { x = x + 1; } fun b() { print x; } ga = a; gb = b; a(); b(); x = 5;    *)
(* b(); } make(); ga(); gb();` b prints 1, then 5, then 6.                 *)
C7_SharedUpvalue ==
    pc # "undefined" =>
        /\ \A i, j \in DOMAIN vm.open_upvalues :
              heap[vm.open_upvalues[i]].location.slot = heap[vm.open_upvalues[j]].location.slot
                  => i = j
        /\ (prog = "shared_upvalue" /\ result = "INTERPRET_OK")
              => out = <<<<49>>, <<53>>, <<54>>>>

(* The line ended after b had printed through the upvalue it shares with a. *)
C7_Witness ==
    /\ prog = "shared_upvalue"
    /\ result = "INTERPRET_OK"
    /\ out = <<<<49>>, <<53>>, <<54>>>>
    /\ \E c, d \in LiveClosures : c # d /\ UpvaluesOf(c) # {} /\ UpvaluesOf(c) = UpvaluesOf(d)

(* s is the beginning of t. *)
IsPrefix(s, t) == Len(s) <= Len(t) /\ s = SubSeq(t, 1, Len(s))

(* C8: `var i = 0; while (i < 3) { print i; i = i + 1; }` runs its body    *)
(* three times, printing 0, 1 and 2, goes on after the loop, and           *)
(* interpret() returns INTERPRET_OK.                                       *)
C8_WhileLoopRuns ==
    (prog = "while_loop" /\ ~stress) =>
        /\ pc # "undefined"
        /\ IsPrefix(out, <<<<48>>, <<49>>, <<50>>>>)
        /\ pc = "idle" => (result = "INTERPRET_OK" /\ out = <<<<48>>, <<49>>, <<50>>>>)

(* The loop printed 0 and then something that is not 1. *)
C8_Witness ==
    /\ prog = "while_loop"
    /\ ~stress
    /\ Len(out) >= 2
    /\ out[1] = <<48>>
    /\ out[2] # <<49>>

(* C9: in `for (var i = 0; i < 2; i = i + 1) print i;` the initializer     *)
(* runs once and each turn runs the condition, the body, the increment in  *)
(* that order: the line prints 0, then 1, and ends with INTERPRET_OK.      *)
C9_ForLoopOrder ==
    (prog = "for_loop" /\ ~stress) =>
        /\ pc # "undefined"
        /\ IsPrefix(out, <<<<48>>, <<49>>>>)
        /\ pc = "idle" => (result = "INTERPRET_OK" /\ out = <<<<48>>, <<49>>>>)

(* The run of the for loop left its bytecode before the body printed. *)
C9_Witness ==
    /\ prog = "for_loop"
    /\ ~stress
    /\ pc = "undefined"
    /\ out = <<>>

(* C10: `print true and false;` compiles without error and, its left       *)
(* operand being truthy, prints the value of the right operand, false.     *)
C10_AndShortCircuits ==
    (prog = "and_expr" /\ ~stress) =>
        /\ result # "INTERPRET_COMPILE_ERROR"
        /\ errs = <<>>
        /\ pc = "idle" => (result = "INTERPRET_OK" /\ out = <<<<102, 97, 108, 115, 101>>>>)

(* The compiler refused `print true and false;`. *)
C10_Witness ==
    /\ prog = "and_expr"
    /\ ~stress
    /\ result = "INTERPRET_COMPILE_ERROR"
    /\ errs # <<>>
    /\ out = <<>>

(* The instruction run() reads next, and the bytes after it. *)
NextFrame == vm.frames[vm.frame_count]

NextChunk == heap[heap[NextFrame.closure].function].chunk

NextByte(k) == NextChunk.code[NextFrame.ip + 1 + k]

NextOpIs(op) ==
    /\ pc = "run"
    /\ vm.frame_count >= 1
    /\ NextFrame.ip + 1 \in DOMAIN NextChunk.code
    /\ NextByte(0) = op

(* The constant the next instruction names with its operand byte. *)
NextConstant == NextChunk.constants.values[NextByte(1) + 1]

(* The value `distance` slots below the top of the stack. *)
Peek(distance) == vm.stack[vm.stack_top - 1 - distance]

(* What the table binds to the name `chars`. *)
BoundTo(table, chars) == {b[2] : b \in {c \in Bindings(table) : heap[c[1]].chars = chars}}

(* The objects the global `chars` is bound to: one, or none. *)
GlobalObject(chars) == {AS_OBJECT(v) : v \in BoundTo(vm.globals, chars)}

(* C11: INHERIT binds in the subclass every method name the superclass     *)
(* binds, to the superclass's closure, and leaves the superclass's table   *)
(* as it is; a method of the subclass's body then takes the place of the   *)
(* inherited one.  In `class A { f() { print 1; } g() { print 2; } }       *)
(* class B < A { g() { print 3; } } var b = B(); b.f(); b.g(); A().g();`   *)
(* B has A's f and its own g, and the line prints 1, 3, 2.                 *)
C11_InheritCopiesMethods ==
    /\ [][(NextOpIs(OP_INHERIT) /\ pc' = "run") =>
             /\ heap'[AS_OBJECT(Peek(1))].methods = heap[AS_OBJECT(Peek(1))].methods
             /\ Bindings(heap[AS_OBJECT(Peek(1))].methods)
                    \subseteq Bindings(heap'[AS_OBJECT(Peek(0))].methods)]_vars
    /\ []((prog = "inherit" /\ result = "INTERPRET_OK") =>
             /\ out = <<<<49>>, <<51>>, <<50>>>>
             /\ \A a \in GlobalObject(<<65>>) : \A b \in GlobalObject(<<66>>) :
                   /\ BoundNames(heap, heap[a].methods) = {<<102>>, <<103>>}
                   /\ BoundNames(heap, heap[b].methods) = {<<102>>, <<103>>}
                   /\ BoundTo(heap[b].methods, <<102>>) = BoundTo(heap[a].methods, <<102>>)
                   /\ BoundTo(heap[b].methods, <<103>>) \cap BoundTo(heap[a].methods, <<103>>) = {})

(* The line ended with B holding A's closure for f and another for g. *)
C11_Witness ==
    /\ prog = "inherit"
    /\ result = "INTERPRET_OK"
    /\ out = <<<<49>>, <<51>>, <<50>>>>
    /\ \E a \in GlobalObject(<<65>>) : \E b \in GlobalObject(<<66>>) :
          /\ BoundTo(heap[a].methods, <<102>>) # {}
          /\ BoundTo(heap[b].methods, <<102>>) = BoundTo(heap[a].methods, <<102>>)
          /\ BoundTo(heap[b].methods, <<103>>) # BoundTo(heap[a].methods, <<103>>)

(* The next instruction is the CALL of a class whose init takes the        *)
(* arguments given.                                                        *)
CallsInit ==
    /\ NextOpIs(OP_CALL)
    /\ IS_CLASS([heap |-> heap], Peek(NextByte(1)))
    /\ \E init \in BoundTo(heap[AS_OBJECT(Peek(NextByte(1)))].methods, init_chars) :
          heap[heap[AS_OBJECT(init)].function].arity = NextByte(1)

(* C12: the call of a class that has an init method, with init's number of *)
(* arguments, makes one instance of the class and enters init with that    *)
(* instance in slot 0 of the new frame; the instance is the value of the   *)
(* call, also after a bare `return;` in init: `class P { init(n) { this.n  *)
(* = n; return; } } print P(7).n;` prints 7.                               *)
C12_InitReturnsInstance ==
    /\ [][(CallsInit /\ pc' # "undefined") =>
             LET instance == Len(heap')
                 frame    == vm'.frames[vm'.frame_count]
             IN  /\ pc' = "run"
                 /\ Len(heap') = Len(heap) + 1
                 /\ heap'[instance].type = "OBJECT_INSTANCE"
                 /\ heap'[instance].klass = AS_OBJECT(Peek(NextByte(1)))
                 /\ vm'.frame_count = vm.frame_count + 1
                 /\ OBJECT_VALUE(frame.closure)
                        \in BoundTo(heap[AS_OBJECT(Peek(NextByte(1)))].methods, init_chars)
                 /\ vm'.stack[frame.slots] = OBJECT_VALUE(instance)]_vars
    /\ []((prog = "init_return" /\ pc = "idle" /\ ~stress) =>
             (result = "INTERPRET_OK" /\ out = <<<<55>>>>))

(* init is entered with the new instance in slot 0 of its frame. *)
C12_Witness ==
    /\ prog = "init_return"
    /\ pc = "run"
    /\ vm.frame_count = 2
    /\ NextFrame.ip = 0
    /\ heap[AS_OBJECT(vm.stack[NextFrame.slots])].type = "OBJECT_INSTANCE"
    /\ heap[heap[NextFrame.closure].function].arity = 1

(* The name the next instruction reads is no key of vm.globals. *)
NextNameUndefined == AS_OBJECT(NextConstant) \notin TableKeys(vm.globals)

(* C13: SET_GLOBAL on a name that is not defined is a runtime error and    *)
(* leaves the globals as they were, that name still undefined, so that a   *)
(* GET_GLOBAL of it fails too; DEFINE_GLOBAL on a name binds it to the     *)
(* value on the stack, also when the name was bound, and changes no other  *)
(* global.  `var c = 3; var c = 5; print c;` prints 5.                     *)
C13_GlobalAssignment ==
    /\ [][(NextOpIs(OP_SET_GLOBAL) /\ NextNameUndefined /\ pc' # "undefined") =>
             /\ pc' = "idle"
             /\ result' = "INTERPRET_RUNTIME_ERROR"
             /\ Bindings(vm'.globals) = Bindings(vm.globals)]_vars
    /\ [][(NextOpIs(OP_GET_GLOBAL) /\ NextNameUndefined /\ pc' # "undefined") =>
             /\ pc' = "idle"
             /\ result' = "INTERPRET_RUNTIME_ERROR"]_vars
    /\ [][(NextOpIs(OP_DEFINE_GLOBAL) /\ pc' # "undefined") =>
             /\ pc' = "run"
             /\ Bindings(vm'.globals) =
                    {b \in Bindings(vm.globals) : b[1] # AS_OBJECT(NextConstant)}
                        \cup {<<AS_OBJECT(NextConstant), Peek(0)>>}]_vars
    /\ []((prog = "redefine" /\ pc = "idle" /\ ~stress) =>
             (result = "INTERPRET_OK" /\ out = <<<<53>>>>))

(* `print d;` failed after `var c = 3; d = 4;` had failed at d = 4: d is   *)
(* not defined and c is.                                                   *)
C13_Witness ==
    /\ prog = "print_d"
    /\ runs = 2
    /\ result = "INTERPRET_RUNTIME_ERROR"
    /\ BoundTo(vm.globals, <<99>>) = {NUMBER_VALUE(3)}
    /\ BoundTo(vm.globals, <<100>>) = {}
    /\ \E o \in LiveStrings : heap[o].chars = <<100>>

(* The next instruction calls a closure with its number of arguments. *)
CallsClosure ==
    /\ NextOpIs(OP_CALL)
    /\ is_object_type([heap |-> heap], Peek(NextByte(1)), "OBJECT_CLOSURE")
    /\ heap[heap[AS_OBJECT(Peek(NextByte(1)))].function].arity = NextByte(1)

(* frame_count is at most FRAMES_MAX. *)
FrameLimit == vm.frame_count <= FRAMES_MAX

(* A call with FRAMES_MAX frames active reports 'Stack overflow.' and      *)
(* pushes no frame.                                                        *)
OverflowFails ==
    [][(CallsClosure /\ vm.frame_count = FRAMES_MAX) =>
          /\ pc' = "idle"
          /\ result' = "INTERPRET_RUNTIME_ERROR"
          /\ errs' = Append(errs, "Stack overflow.")
          /\ Len(vm'.frames) = Len(vm.frames)
          /\ vm'.frame_count = 0]_vars

(* run() goes on to a next instruction only with a frame to read it from. *)
LoopHasFrame == [][(pc = "run" /\ pc' # "idle") => vm'.frame_count >= 1]_vars

(* C14: frame_count never exceeds 64, a call with 64 frames active fails   *)
(* with 'Stack overflow.' and pushes no frame, and the dispatch loop runs  *)
(* with frame_count at least 1.                                            *)
C14_FrameCountBounds == []FrameLimit /\ OverflowFails /\ LoopHasFrame

(* `class A {} A(1); print 1;`: run() has gone on after the call reset the *)
(* frames.                                                                 *)
C14_Witness ==
    /\ prog = "class_args"
    /\ pc = "undefined"
    /\ vm.frame_count = 0
    /\ errs = <<"Expected 0 arguments but got %d.">>

(* `fun f() { f(); } f();` is about to call f with FRAMES_MAX frames. *)
FramesFull == CallsClosure /\ vm.frame_count = FRAMES_MAX /\ prog = "recurse"

(* The bytes of the objects of the list, each with the buffers it owns. *)
OwnedBytes == SumBytes([heap |-> heap], vm.objects, 1, Len(vm.objects))

(* The bytes of the entry arrays of vm.strings and vm.globals. *)
TableBytes == SIZEOF_ENTRY * (vm.strings.capacity + vm.globals.capacity)

(* C15, as amended: whenever no allocation is under way (between two       *)
(* instructions, between two lines), bytes_allocated is the bytes of the   *)
(* objects of the list with the buffers they own plus the bytes of the     *)
(* entry arrays of vm.strings and vm.globals; so it is after a collection. *)
C15_BytesAccounted ==
    pc # "undefined" => vm.bytes_allocated = OwnedBytes + TableBytes

(* C15, as stated: when a collection ends, bytes_allocated is the bytes of *)
(* the surviving objects with the buffers they own.                        *)
C15_BytesAreLiveObjects == \A i \in DOMAIN gclog : gclog[i].bytes = gclog[i].owned

(* A collection of the last step freed objects, and bytes_allocated counts *)
(* more than the objects left.                                             *)
C15_Witness ==
    /\ pc # "undefined"
    /\ \E i \in DOMAIN gclog : Len(gclog[i].after) < Len(gclog[i].before)
    /\ TableBytes > 0
    /\ vm.bytes_allocated = OwnedBytes + TableBytes

(* C16: outside a collection no object of the list is marked: each         *)
(* collection ends with the objects it keeps unmarked, and an object is    *)
(* allocated unmarked.                                                     *)
C16_HeapIsWhite ==
    pc # "undefined" =>
        /\ \A o \in SeqRange(vm.objects) : ~heap[o].is_marked
        /\ \A i \in DOMAIN gclog : gclog[i].unmarked

(* A collection of the last step marked objects and kept them, and freed   *)
(* others; the objects kept are unmarked.                                  *)
C16_Witness ==
    /\ pc # "undefined"
    /\ \E i \in DOMAIN gclog :
          /\ gclog[i].marked # {}
          /\ gclog[i].marked \subseteq SeqRange(vm.objects)
          /\ Len(gclog[i].after) < Len(gclog[i].before)
          /\ \A o \in gclog[i].marked : ~heap[o].is_marked

(* The functions of the heap that have not been freed. *)
LiveFunctions ==
    {o \in DOMAIN heap : ~heap[o].freed /\ heap[o].type = "OBJECT_FUNCTION"}

(* The operand bytes run() reads after the opcode at `offset` of `chunk`.  *)
OperandBytes(chunk, offset) ==
    LET instr == chunk.code[offset + 1]
    IN  CASE instr \in {OP_INVOKE, OP_SUPER_INVOKE, OP_LOOP, OP_JUMP, OP_JUMP_IF_FALSE} -> 2
          [] instr \in {OP_CALL, OP_CLASS, OP_METHOD, OP_CONSTANT, OP_DEFINE_GLOBAL,
                        OP_SET_LOCAL, OP_SET_GLOBAL, OP_SET_UPVALUE, OP_SET_PROPERTY,
                        OP_GET_LOCAL, OP_GET_GLOBAL, OP_GET_UPVALUE, OP_GET_PROPERTY,
                        OP_GET_SUPER} -> 1
          [] instr = OP_CLOSURE ->
                1 + 2 * heap[chunk.constants.values[chunk.code[offset + 2] + 1].v].upvalue_count
          [] OTHER -> 0

(* Reading `chunk` one instruction after the other from `offset` ends on   *)
(* its last byte, and the capture pairs of each CLOSURE start with 0 or 1. *)
RECURSIVE Decodes(_, _)
Decodes(chunk, offset) ==
    IF offset = Len(chunk.code) THEN TRUE
    ELSE IF offset + 1 + OperandBytes(chunk, offset) > Len(chunk.code) THEN FALSE
    ELSE /\ chunk.code[offset + 1] \in OP_CALL..OP_GREATER
         /\ chunk.code[offset + 1] = OP_CLOSURE =>
               \A i \in 1..((OperandBytes(chunk, offset) - 1) \div 2) :
                   chunk.code[offset + 2 * i + 1] \in {0, 1}
         /\ Decodes(chunk, offset + 1 + OperandBytes(chunk, offset))

(* The function every chunk of the lines without a jump decodes. *)
Emitted ==
    (pc # "undefined" /\ session # "loops") =>
        \A f \in LiveFunctions : Decodes(heap[f].chunk, 0)

(* The turn of OP_CLOSURE reads the constant and the two bytes of each     *)
(* upvalue of the function, and leaves ip on an opcode of the chunk; the   *)
(* closure it pushes has that many upvalues.                               *)
Consumed ==
    (NextOpIs(OP_CLOSURE) /\ pc' # "undefined") =>
        LET k     == heap[NextConstant.v].upvalue_count
            frame == vm'.frames[vm.frame_count]
        IN  /\ vm'.frame_count = vm.frame_count
            /\ frame.ip = NextFrame.ip + 2 + 2 * k
            /\ frame.ip + 1 \in DOMAIN NextChunk.code
            /\ Decodes(NextChunk, frame.ip)
            /\ vm'.stack[vm'.stack_top - 1].t = "object"
            /\ heap'[vm'.stack[vm'.stack_top - 1].v].type = "OBJECT_CLOSURE"
            /\ Len(heap'[vm'.stack[vm'.stack_top - 1].v].upvalues) = k

(* C17: the CLOSURE instruction of a function compiled without error is    *)
(* followed by two bytes for each of its upvalues, and the turn of         *)
(* OP_CLOSURE reads exactly these, so that ip is on the next opcode.       *)
C17_ClosureOperands == []Emitted /\ [][Consumed]_vars

(* A closure with two upvalues has just been made. *)
C17_Witness ==
    /\ pc = "run"
    /\ vm.stack_top >= 1
    /\ Peek(0).t = "object"
    /\ heap[Peek(0).v].type = "OBJECT_CLOSURE"
    /\ heap[Peek(0).v].upvalue_count = 2
    /\ NextFrame.ip >= 6
    /\ NextChunk.code[NextFrame.ip - 6 + 1] = OP_CLOSURE
    /\ heap[NextChunk.constants.values[NextChunk.code[NextFrame.ip - 5 + 1] + 1].v].upvalue_count = 2

(* No upvalue of the open list points to the slot `last` or above. *)
NoneOpenFrom(last) ==
    \A u \in SeqRange(vm.open_upvalues) : heap[u].location.slot < last

(* The location and the closed value of each upvalue of the heap `h`. *)
UpvalueCells(h) ==
    [o \in {u \in DOMAIN h : h[u].type = "OBJECT_UPVALUE"} |->
        <<h[o].location, h[o].closed>>]

(* close_upvalues(last) leaves the open list and the upvalues of `w`. *)
ClosesNothing(w, last) ==
    LET w1 == close_upvalues(w, last)
    IN  /\ w1.vm.open_upvalues = w.vm.open_upvalues
        /\ UpvalueCells(w1.heap) = UpvalueCells(w.heap)

(* Whatever the slot, close_upvalues changes nothing when no open upvalue  *)
(* is at the slot or above, and nothing when it has just been applied.     *)
CloseIsNoOp ==
    pc = "run" =>
        \A last \in 0..vm.stack_top :
            /\ NoneOpenFrom(last) => ClosesNothing(World(0), last)
            /\ ClosesNothing(close_upvalues(World(0), last), last)

(* The turn of OP_CLOSE_UPVALUE or OP_RETURN with no open upvalue in the   *)
(* slots it closes leaves the open list and every upvalue.                 *)
TurnClosesNothing ==
    (/\ pc' # "undefined"
     /\ \/ NextOpIs(OP_CLOSE_UPVALUE) /\ NoneOpenFrom(vm.stack_top - 1)
        \/ NextOpIs(OP_RETURN) /\ NoneOpenFrom(NextFrame.slots)) =>
        /\ vm'.open_upvalues = vm.open_upvalues
        /\ UpvalueCells(heap') = UpvalueCells(heap)

(* C18: close_upvalues(slot) with no open upvalue at slot or above, and so *)
(* a second close_upvalues(slot) in a row, changes neither the open list   *)
(* nor the location or the closed value of an upvalue.                     *)
C18_CloseUpvaluesIdempotent == []CloseIsNoOp /\ [][TurnClosesNothing]_vars

(* OP_CLOSE_UPVALUE is next for a slot no open upvalue points to, while an  *)
(* upvalue is open below it: close_upvalues is applied and closes nothing. *)
C18_Witness ==
    /\ NextOpIs(OP_CLOSE_UPVALUE)
    /\ vm.open_upvalues # <<>>
    /\ NoneOpenFrom(vm.stack_top - 1)
    /\ ClosesNothing(World(0), vm.stack_top - 1)

(* A function returns after OP_CLOSE_UPVALUE has closed the upvalue of its *)
(* block: the close_upvalues of OP_RETURN is the second in a row.          *)
SecondClose ==
    /\ NextOpIs(OP_RETURN)
    /\ NextFrame.ip >= 2
    /\ NextChunk.code[NextFrame.ip - 2 + 1] = OP_CLOSE_UPVALUE
    /\ NextChunk.code[NextFrame.ip - 1 + 1] = OP_NIL
    /\ NoneOpenFrom(NextFrame.slots)

(* The compiler at work, and how many upvalues its function has. *)
Compiler == compiling.cc[Len(compiling.cc)]

UpvalueCount == heap[Compiler.function].upvalue_count

(* The statement read next is `name;` in the innermost function of the     *)
(* line of the upvalues; Referred are the names that function has referred *)
(* to, none of which is a local of it.                                     *)
Refers ==
    /\ pc = "compile"
    /\ prog = "many_upvalues"
    /\ NextStatement # <<>>
    /\ Head(NextStatement).type = "TOKEN_IDENTIFIER"

Referred ==
    {ManyUpvalues(p)[1].lexeme : p \in (2 * (FreeSlots + 1) + 1)..(compiling.fed - 1)}

RefersToNew == Refers /\ Head(NextStatement).lexeme \notin Referred

TooManyUpvalues == "Too many closure variables in a function."

(* C19 as the specification has it: the reference to the 256th distinct    *)
(* variable of the enclosing functions reports the error.                  *)
C19_Upvalue256Fails ==
    [][(RefersToNew /\ Cardinality(Referred) = UINT8_COUNT - 1) =>
            TooManyUpvalues \in SeqRange(errs')]_vars

(* A reference to a variable of the enclosing functions adds an upvalue    *)
(* while the function has fewer than UINT8_COUNT, and reports the error    *)
(* once it has UINT8_COUNT; a reference to a variable already captured     *)
(* does neither.                                                           *)
CaptureStep ==
    /\ (RefersToNew /\ Cardinality(Referred) < UINT8_COUNT) =>
            /\ errs' = errs
            /\ heap'[Compiler.function].upvalue_count = UpvalueCount + 1
    /\ (RefersToNew /\ Cardinality(Referred) >= UINT8_COUNT) =>
            /\ errs' = Append(errs, TooManyUpvalues)
            /\ UpvalueCount = UINT8_COUNT
            /\ heap'[Compiler.function].upvalue_count = UINT8_COUNT
    /\ (Refers /\ ~RefersToNew) =>
            /\ errs' = errs
            /\ heap'[Compiler.function].upvalue_count = UpvalueCount

(* C19: a function that captures its 257th distinct enclosing variable     *)
(* produces the compile error 'Too many closure variables in a function.'; *)
(* the 256 before it are captured without an error.                        *)
C19_Upvalue257Fails ==
    /\ [](pc = "compile" => UpvalueCount <= UINT8_COUNT)
    /\ [][CaptureStep]_vars

(* The function has 256 upvalues and its reference to a 257th variable has *)
(* just been refused.                                                      *)
C19_Witness ==
    /\ pc = "compile"
    /\ prog = "many_upvalues"
    /\ UpvalueCount = UINT8_COUNT
    /\ Cardinality(Referred) = UINT8_COUNT + 1
    /\ errs = <<TooManyUpvalues>>

(* The statement read next is `var name;` inside a function. *)
Declares ==
    /\ pc = "compile"
    /\ NextStatement # <<>>
    /\ Head(NextStatement).type = "TOKEN_VAR"
    /\ Compiler.scope_depth > 0

TooManyLocals == "Too many local variables in a function."

LocalsBounded ==
    \A i \in DOMAIN compiling.cc : Len(compiling.cc[i].locals) <= UINT8_COUNT

(* A declaration in a frame of 256 locals, slot 0 included, reports the    *)
(* error and leaves the locals; in a frame of fewer it adds the local.     *)
DeclareStep ==
    Declares =>
        LET locals == compiling'.cc[Len(compiling.cc)].locals
        IN  /\ Len(compiling'.cc) = Len(compiling.cc)
            /\ IF Len(Compiler.locals) = UINT8_COUNT
               THEN /\ errs' = Append(errs, TooManyLocals)
                    /\ locals = Compiler.locals
               ELSE /\ errs' = errs
                    /\ Len(locals) = Len(Compiler.locals) + 1
                    /\ SubSeq(locals, 1, Len(Compiler.locals)) = Compiler.locals
                    /\ locals[Len(locals)].name = NextStatement[2].lexeme

(* C20: local_count of a compiler never exceeds 256, and the declaration   *)
(* of a local in a frame that uses 256 slots, slot 0 included, reports     *)
(* 'Too many local variables in a function.' and adds no local.            *)
C20_LocalCountBounded == []LocalsBounded /\ [][DeclareStep]_vars

(* A declaration has just been refused in a frame of 256 locals. *)
C20_Witness ==
    /\ pc = "compile"
    /\ prog = "many_locals"
    /\ Len(Compiler.locals) = UINT8_COUNT
    /\ Compiler.locals[1].name = <<>>
    /\ errs = <<TooManyLocals>>

(* The chunk of the compiler at work, the offset of its first              *)
(* OP_JUMP_IF_FALSE, and the 16 bits run() reads after it with READ_SHORT.  *)
Chunk == heap[Compiler.function].chunk

JumpAt ==
    CHOOSE i \in 0..(Chunk.count - 1) :
        /\ Chunk.code[i + 1] = OP_JUMP_IF_FALSE
        /\ \A j \in 0..(i - 1) : Chunk.code[j + 1] # OP_JUMP_IF_FALSE

JumpOperand == Chunk.code[JumpAt + 2] * 256 + Chunk.code[JumpAt + 3]

(* The `if` or the `while` of the line has been compiled to its end: the   *)
(* last byte of the chunk is the OP_POP emitted after patch_jump().        *)
BlockClosed == session = "jumps" /\ pc = "compile" /\ ~compiling.open

(* The offset at which patch_jump() was called for the first jump, and the *)
(* bytes from the end of the operand of the jump to it.                    *)
JumpTarget == Chunk.count - 1

JumpDistance == JumpTarget - (JumpAt + 3)

(* The bytes from the end of the operand of the OP_LOOP of the `while`     *)
(* back to loop_start.                                                     *)
LoopDistance == (Chunk.count - 1) - compiling.held[1]

LoopOperand == Chunk.code[Chunk.count - 2] * 256 + Chunk.code[Chunk.count - 1]

TooLongJump == "Too much code to jump over."

TooLongLoop == "Loop body too large."

(* C21: a forward jump over more than 65,535 bytes and a loop back over    *)
(* more than 65,535 bytes are compile errors, so that each jump of a chunk *)
(* compiled without error has a distance of 16 bits.                       *)
C21_LongJumpsReported ==
    BlockClosed =>
        /\ JumpDistance > UINT16_MAX => errs # <<>>
        /\ (prog = "long_while" /\ LoopDistance > UINT16_MAX) => errs # <<>>

(* The half of C21 on the loops. *)
LongLoopsReported ==
    (BlockClosed /\ prog = "long_while") =>
        /\ LoopDistance > UINT16_MAX <=> TooLongLoop \in SeqRange(errs)
        /\ LoopDistance <= UINT16_MAX => LoopOperand = LoopDistance

(* What patch_jump() does report: a jump over more than 65,536 bytes. *)
LongJumpsReportedLate ==
    (BlockClosed /\ prog = "long_if") =>
        (JumpDistance > UINT16_MAX + 1 <=> TooLongJump \in SeqRange(errs))

(* An `if` whose jump over the branch is of 65,536 bytes has been compiled *)
(* without an error.                                                       *)
C21_Witness ==
    /\ BlockClosed
    /\ prog = "long_if"
    /\ JumpDistance = UINT16_MAX + 1
    /\ errs = <<>>

(* C22: the two bytes after the opcode of a jump that patch_jump() has     *)
(* patched are, high byte first, the distance from the end of the operand  *)
(* to the offset at which patch_jump() was called.                         *)
C22_OperandIsDistance ==
    (BlockClosed /\ errs = <<>>) => JumpOperand = JumpDistance

(* The operand run() reads after the OP_JUMP_IF_FALSE of `if (true) { }`. *)
C22_Witness ==
    /\ BlockClosed
    /\ prog = "long_if"
    /\ JumpDistance = 4
    /\ JumpOperand = UINT8_MAX * 256

(* C23: patch_jump() changes the two bytes of the operand of the jump and  *)
(* no other byte of the chunk, the opcode emitted after the jump included. *)
C23_PatchTouchesOperandOnly ==
    [][(session = "jumps" /\ pc = "compile" /\ compiling.open /\ ~compiling'.open) =>
            \A i \in 0..(Chunk.count - 1) :
                i \notin {JumpAt + 1, JumpAt + 2} =>
                    heap'[Compiler.function].chunk.code[i + 1] = Chunk.code[i + 1]]_vars

(* The OP_POP emitted after OP_JUMP_IF_FALSE is no longer in the chunk. *)
C23_Witness ==
    /\ BlockClosed
    /\ Chunk.code[JumpAt + 1] = OP_JUMP_IF_FALSE
    /\ Chunk.code[JumpAt + 4] # OP_POP

(***************************************************************************)
(* C24: after interpret() returns INTERPRET_OK, frame_count is 0 and       *)
(* stack_top equals the stack base (slot 0 of vm.stack), after any number  *)
(* of consecutive calls of interpret() on the same VM.                     *)
(***************************************************************************)
ReturnedOk == pc = "idle" /\ result = "INTERPRET_OK"

C24_StackAtBaseAfterOk == ReturnedOk => (vm.frame_count = 0 /\ vm.stack_top = 0)

(* The part of C24 that holds: no frame is left. *)
NoFrameAfterOk == ReturnedOk => vm.frame_count = 0

(* A second line of the session has returned INTERPRET_OK. *)
C24_Witness == ReturnedOk /\ runs = 2 /\ vm.frame_count = 0

(* Where stack_top is left: below the base by a line without global        *)
(* declarations, above it by a line with two or more.                      *)
BelowBaseAfterOk == ReturnedOk /\ vm.stack_top < 0

AboveBaseAfterOk == ReturnedOk /\ vm.stack_top > 0

(***************************************************************************)
(* C25: in every reachable state stack_top lies within                     *)
(* [stack, stack + STACK_MAX] and the slots pointer of every active frame  *)
(* lies within [stack, stack_top): no stack_pop moves stack_top below the  *)
(* base, no stack_push writes outside the array, and no frame window       *)
(* starts below the base.  Slot 0 is vm.stack[0].                          *)
(***************************************************************************)
ActiveFrames == {vm.frames[i] : i \in 1..vm.frame_count}

StackTopInBounds == vm.stack_top \in 0..STACK_MAX

FramesInStack == \A frame \in ActiveFrames : frame.slots >= 0 /\ frame.slots < vm.stack_top

C25_StackInBounds == pc # "undefined" => (StackTopInBounds /\ FramesInStack)

(* The top-level call frame of a line has been pushed and run() is at work. *)
C25_Witness == pc = "run" /\ vm.frame_count = 1 /\ prog = "print_sum"

(* The slot interpret() gives the closure of the line on a fresh VM. *)
FrameBelowBase == pc = "run" /\ \E frame \in ActiveFrames : frame.slots < 0

(* What holds of the upper end: nothing is pushed beyond the array. *)
StackTopBelowEnd == pc # "undefined" => vm.stack_top <= STACK_MAX

(***************************************************************************)
(* C26: a complete statement or declaration leaves the height of the value *)
(* stack unchanged, except a local variable declaration, which raises it   *)
(* by one; hence OP_GET_LOCAL i and OP_SET_LOCAL i find at frame.slots[i]  *)
(* the variable the compiler numbered i.  A global declaration is its      *)
(* initialiser, which pushes one value, and OP_DEFINE_GLOBAL, which has to *)
(* take it off again; in the line block_local the only local, b, holds 2   *)
(* whenever it is read.                                                    *)
(***************************************************************************)
DefinesGlobal == pc = "run" /\ NextOpIs(OP_DEFINE_GLOBAL)

DeclarationKeepsHeight == DefinesGlobal /\ pc' # "undefined" => vm'.stack_top = vm.stack_top - 1

ReadsLocal == pc = "run" /\ NextOpIs(OP_GET_LOCAL)

ReadsItsVariable ==
    ReadsLocal /\ prog = "block_local" /\ pc' # "undefined"
        => vm'.stack[vm'.stack_top - 1] = NUMBER_VALUE(2)

C26_StatementsKeepHeight == [][DeclarationKeepsHeight /\ ReadsItsVariable]_vars

(* The local b of block_local is about to be read, after the global        *)
(* declaration before the block has completed.                             *)
C26_Witness == ReadsLocal /\ prog = "block_local" /\ vm.frame_count = 1

(* What the read finds: the value of the global declaration left on the    *)
(* stack, one slot below b.                                                *)
LocalSlotShifted ==
    /\ C26_Witness
    /\ vm.stack[NextFrame.slots + NextByte(1)] = NUMBER_VALUE(1)
    /\ vm.stack[NextFrame.slots + NextByte(1) + 1] = NUMBER_VALUE(2)

(* The half of C26 that holds where no global declaration precedes: the    *)
(* locals of the functions of the line nested are read from their slots.   *)
NestedPrintsSum == (prog = "nested" /\ ReturnedOk) => out = <<<<51>>>>

(***************************************************************************)
(* C27: the function compile() returns is reachable from a root at every   *)
(* allocation interpret() performs before the top-level frame is pushed:   *)
(* a collection triggered while the closure of the line is created does    *)
(* not free the function.  The closure is the last object interpret()      *)
(* allocates before run().                                                 *)
(***************************************************************************)
InterpretStep == pc = "idle" /\ runs' = runs + 1

LastObject(h) == h[Len(h)]

ClosureOfLineCreated ==
    /\ InterpretStep
    /\ Len(heap') > Len(heap)
    /\ LastObject(heap').type = "OBJECT_CLOSURE"

C27_LineFunctionRooted ==
    [][ClosureOfLineCreated => ~heap'[LastObject(heap').function].freed]_vars

(* interpret() has created the closure of a line and a collection ran      *)
(* while it did (the build with DEBUG_STRESS_GC collects at every          *)
(* allocation).                                                            *)
C27_Witness ==
    /\ stress
    /\ runs = 1
    /\ heap # <<>>
    /\ LastObject(heap).type = "OBJECT_CLOSURE"
    /\ gclog # <<>>

(* What that collection leaves: the closure refers to a freed function,    *)
(* which call() then reads.                                                *)
LineFunctionFreed ==
    /\ C27_Witness
    /\ heap[LastObject(heap).function].freed
    /\ pc = "undefined"

(* Without a collection in new_closure() the function is still there. *)
LineFunctionKept ==
    [][ClosureOfLineCreated /\ ~stress /\ gclog' = <<>>
           => ~heap'[LastObject(heap').function].freed]_vars

(***************************************************************************)
(* C28: a string being interned is on the value stack while it is put in   *)
(* the strings table, a constant is on the stack while the constant array  *)
(* grows, and both operands of a concatenation stay on the stack until the *)
(* result exists: a collection at any of these allocations frees none of   *)
(* them.  So the strings table never gets a freed key, and no function     *)
(* that is kept gets a freed constant.                                     *)
(***************************************************************************)
InternedAreKept == \A s \in TableObjects(vm.strings) : ~heap[s].freed

ObjectConstants(f) ==
    {heap[f].chunk.constants.values[i].v :
        i \in {j \in 1..heap[f].chunk.constants.count :
                   heap[f].chunk.constants.values[j].t = "object"}}

ConstantsAreKept == \A f \in LiveFunctions : \A o \in ObjectConstants(f) : ~heap[o].freed

C28_AllocationsKeepValues == InternedAreKept /\ ConstantsAreKept

(* The compile of the second line of a session has run the collector and   *)
(* the function of the line has objects among its constants.               *)
C28_Witness ==
    /\ pc = "run"
    /\ runs = 2
    /\ gclog # <<>>
    /\ vm.frame_count = 1
    /\ NextFrame.ip = 0
    /\ ObjectConstants(heap[NextFrame.closure].function) # {}

(* What the collection in add_constant() leaves when the line before left  *)
(* stack_top below vm.stack: the name pushed at stack[-1] is no root, and   *)
(* the function of the line gets a freed constant.                         *)
ConstantFreed ==
    /\ C28_Witness
    /\ \E o \in ObjectConstants(heap[NextFrame.closure].function) : heap[o].freed

(* On a VM whose stack_top is at the base when the line is read, as for    *)
(* the first line, nothing that is pushed is lost.                         *)
FirstLineKeepsValues == runs <= 1 => (InternedAreKept /\ ConstantsAreKept)

(* The operands of a concatenation are still there when OP_ADD is done. *)
Concatenates ==
    /\ NextOpIs(OP_ADD)
    /\ Peek(0).t = "object"
    /\ Peek(1).t = "object"

ConcatKeepsOperands ==
    [][Concatenates /\ pc' # "undefined"
        => /\ ~heap'[Peek(0).v].freed
           /\ ~heap'[Peek(1).v].freed
           /\ heap'[vm'.stack[vm'.stack_top - 1].v].chars
                  = heap[Peek(1).v].chars \o heap[Peek(0).v].chars]_vars

(***************************************************************************)
(* C29: after every collection every key of the strings table is a String  *)
(* that survived the sweep (no entry refers to a freed String), and every  *)
(* String that no root reached, which only the strings table referred to,  *)
(* has been removed from the table and freed.                              *)
(***************************************************************************)
StringsOf(objects) == {o \in objects : heap[o].type = "OBJECT_STRING"}

KeysSurvive(gc) == gc.strings \subseteq StringsOf(SeqRange(gc.after))

UnreachedStrings(gc) == StringsOf(SeqRange(gc.before)) \ gc.reachable

WhiteStringsGone(gc) ==
    \A s \in UnreachedStrings(gc) :
        s \notin gc.strings /\ s \notin SeqRange(gc.after) /\ heap[s].freed

C29_StringsTableIsWeak ==
    \A i \in DOMAIN gclog : KeysSurvive(gclog[i]) /\ WhiteStringsGone(gclog[i])

(* A collection has found a String no root reaches, while others stay in   *)
(* the table.                                                              *)
C29_Witness ==
    \E i \in DOMAIN gclog :
        /\ UnreachedStrings(gclog[i]) # {}
        /\ gclog[i].strings # {}
        /\ gclog[i].strings # StringsOf(SeqRange(gclog[i].before))

(***************************************************************************)
(* C30: after a collection the object list holds exactly the objects that  *)
(* were marked during it, each once and in the order they had before; the  *)
(* list, a sequence that ends where the NULL link is, has no cycle; every  *)
(* object that was not marked has been unlinked and freed.                 *)
(***************************************************************************)
EachOnce(list) == \A i, j \in DOMAIN list : list[i] = list[j] => i = j

MarkedInOrder(gc) == gc.after = SelectSeq(gc.before, LAMBDA o : o \in gc.marked)

ExactlyTheMarked(gc) == SeqRange(gc.after) = gc.marked

UnmarkedFreed(gc) ==
    \A o \in SeqRange(gc.before) \ gc.marked : o \notin SeqRange(gc.after) /\ heap[o].freed

C30_SweepKeepsTheMarked ==
    \A i \in DOMAIN gclog :
        /\ MarkedInOrder(gclog[i])
        /\ ExactlyTheMarked(gclog[i])
        /\ EachOnce(gclog[i].after)
        /\ UnmarkedFreed(gclog[i])

(* A collection has kept two objects or more and freed one that stood      *)
(* between objects it kept.                                                *)
C30_Witness ==
    \E i \in DOMAIN gclog :
        \E a, b, c \in DOMAIN gclog[i].before :
            /\ a < b
            /\ b < c
            /\ gclog[i].before[a] \in gclog[i].marked
            /\ gclog[i].before[b] \notin gclog[i].marked
            /\ gclog[i].before[c] \in gclog[i].marked

(***************************************************************************)
(* reallocate() called on its own, on a VM that has read failed lines: pc  *)
(* is "alloc", compiling holds the blocks that are allocated (one of each  *)
(* size) and the sizes of the last request, runs counts the calls.         *)
(***************************************************************************)
(* How many calls of reallocate() are followed. *)
MaxCalls == 3

(* The sizes a request names; 0 is no block. *)
BlockSizes == {0, 8, 640, 1440}

AllocInit ==
    \E slack \in ChurnSlack :
        \E w \in {init_vm_([vm |-> ZeroVM, heap |-> <<>>, out |-> <<>>, errs |-> <<>>,
                           stress |-> FALSE, gclog |-> <<>>, cc |-> <<>>, cls |-> <<>>,
                           parser |-> ZeroParser, ub |-> FALSE, ret |-> 0, clock |-> 0])} :
            LET n == (w.vm.next_gc - w.vm.bytes_allocated - slack) \div FailedLineBytes
            IN  /\ heap = Append(w.heap, [type |-> "FAILED_LINES", is_marked |-> FALSE,
                                          freed |-> FALSE, bytes |-> n * FailedLineBytes])
                /\ vm = [w.vm EXCEPT !.objects = <<Len(w.heap) + 1>> \o w.vm.objects,
                                     !.bytes_allocated = w.vm.bytes_allocated + n * FailedLineBytes]
                /\ out = <<>>
                /\ errs = <<>>
                /\ gclog = <<>>
                /\ pc = "alloc"
                /\ result = "NONE"
                /\ stress = FALSE
                /\ runs = 0
                /\ session = "alloc"
                /\ prog = "none"
                /\ compiling = [blocks |-> {}, old_size |-> 0, new_size |-> 0]

(* reallocate(pointer, old_size, new_size): pointer is NULL and old_size 0, *)
(* or pointer is a block of old_size bytes; the block is new_size bytes    *)
(* afterwards, and freed when new_size is 0.                               *)
Reallocate(old_size, new_size) ==
    /\ pc = "alloc"
    /\ runs < MaxCalls
    /\ old_size = 0 \/ old_size \in compiling.blocks
    /\ new_size \notin compiling.blocks \ {old_size}
    /\ Commit(reallocate_(World(0), old_size, new_size))
    /\ compiling' = [blocks   |-> (compiling.blocks \ {old_size}) \cup ({new_size} \ {0}),
                     old_size |-> old_size,
                     new_size |-> new_size]
    /\ runs' = runs + 1
    /\ UNCHANGED <<pc, result, stress, session, prog>>

AllocNext == \E old_size, new_size \in BlockSizes : Reallocate(old_size, new_size)

SpecAlloc == AllocInit /\ [][AllocNext]_vars

(***************************************************************************)
(* C31: without stress mode a call of reallocate() runs a collection if    *)
(* and only if the request grows (new_size > old_size) and bytes_allocated *)
(* with new_size - old_size added exceeds next_gc; it runs one collection, *)
(* the frees of the sweep start none; and when the collection ends next_gc *)
(* is 2 * bytes_allocated.  gclog holds the collections of the call.       *)
(***************************************************************************)
Reallocated == pc = "alloc" /\ runs' = runs + 1

Grows == compiling'.new_size > compiling'.old_size

OverThreshold ==
    vm.bytes_allocated + compiling'.new_size - compiling'.old_size > vm.next_gc

CollectsWhenOver == (gclog' # <<>>) <=> (Grows /\ OverThreshold)

NothingNested == Len(gclog') <= 1

NextGcDoubled ==
    gclog' # <<>> =>
        /\ vm'.next_gc = GC_HEAP_GROW_FACTOR * vm'.bytes_allocated
        /\ vm'.bytes_allocated = gclog'[1].bytes

C31_CollectsOverThreshold ==
    [][Reallocated /\ ~stress => CollectsWhenOver /\ NothingNested /\ NextGcDoubled]_vars

(* A request has grown the heap over next_gc: the collection it ran freed  *)
(* the functions of the failed lines and set next_gc anew.                 *)
C31_Witness ==
    /\ pc = "alloc"
    /\ gclog # <<>>
    /\ compiling.new_size > compiling.old_size
    /\ vm.next_gc < INITIAL_NEXT_GC
    /\ \E o \in DOMAIN heap : heap[o].freed

(* A request that shrinks a block while bytes_allocated is over next_gc    *)
(* cannot be reached: bytes_allocated is at most next_gc between calls.    *)
BelowThresholdBetweenCalls == pc = "alloc" => vm.bytes_allocated <= vm.next_gc

(***************************************************************************)
(* C32: the list of open upvalues is strictly descending by the slot each  *)
(* points at, so it holds at most one upvalue for a slot, and each points  *)
(* at a slot below stack_top; capture_upvalue(slot) returns the upvalue of *)
(* the list that has the slot when there is one, and otherwise puts a new  *)
(* one in the list where the order is kept.                                *)
(***************************************************************************)
OpenSlot(i) == heap[vm.open_upvalues[i]].location.slot

OpenListDescending ==
    \A i, j \in DOMAIN vm.open_upvalues : i < j => OpenSlot(i) > OpenSlot(j)

OpenAreOpen ==
    \A i \in DOMAIN vm.open_upvalues :
        /\ ~heap[vm.open_upvalues[i]].freed
        /\ ~heap[vm.open_upvalues[i]].location.own

OpenBelowTop == \A i \in DOMAIN vm.open_upvalues : OpenSlot(i) < vm.stack_top

OpenListOrdered == pc # "undefined" => (OpenListDescending /\ OpenAreOpen /\ OpenBelowTop)

(* capture_upvalue(local) on the state as it is: what it returns and the   *)
(* list it leaves.                                                         *)
Captures(local) ==
    LET w1     == capture_upvalue(World(0), local)
        before == vm.open_upvalues
        after  == w1.vm.open_upvalues
        having == {u \in SeqRange(before) : heap[u].location.slot = local}
    IN  IF having # {}
        THEN w1.ret \in having /\ after = before /\ w1.heap = heap
        ELSE /\ w1.ret \notin DOMAIN heap
             /\ w1.heap[w1.ret].location = [own |-> FALSE, slot |-> local]
             /\ SelectSeq(after, LAMBDA u : u # w1.ret) = before
             /\ \A i, j \in DOMAIN after :
                    i < j => w1.heap[after[i]].location.slot > w1.heap[after[j]].location.slot

CaptureKeepsOrder ==
    (pc = "run" /\ ~stress) => \A local \in 0..(vm.stack_top - 1) : Captures(local)

C32_OpenUpvaluesOrdered == OpenListOrdered /\ CaptureKeepsOrder

(* Two upvalues are open below stack_top; slots above theirs, theirs and   *)
(* slots below theirs can be captured.                                     *)
C32_Witness ==
    /\ pc = "run"
    /\ ~stress
    /\ Len(vm.open_upvalues) >= 2
    /\ OpenSlot(1) < vm.stack_top

(***************************************************************************)
(* C33: OP_CALL of a closure with n arguments pushes a frame whose base is *)
(* the slot of the callee and whose ip is the start of its chunk; the      *)
(* OP_RETURN of a frame that is not the top-level one leaves frame_count   *)
(* as it was before the call, stack_top one above the slot that held the   *)
(* callee, the returned value in that slot, every slot below unchanged and *)
(* no open upvalue at or above the base of the frame.                      *)
(***************************************************************************)
CallsAClosure ==
    /\ NextOpIs(OP_CALL)
    /\ Peek(NextByte(1)).t = "object"
    /\ heap[Peek(NextByte(1)).v].type = "OBJECT_CLOSURE"
    /\ pc' = "run"

CallPushesFrame ==
    CallsAClosure =>
        /\ vm'.frame_count = vm.frame_count + 1
        /\ vm'.frames[vm'.frame_count] =
               [closure |-> Peek(NextByte(1)).v,
                slots   |-> vm.stack_top - NextByte(1) - 1,
                ip      |-> 0]
        /\ vm'.stack_top = vm.stack_top
        /\ vm'.stack = vm.stack
        /\ vm'.frames[vm.frame_count].ip = NextFrame.ip + 2

ReturnsToCaller == NextOpIs(OP_RETURN) /\ vm.frame_count > 1 /\ pc' # "undefined"

ReturnPopsFrame ==
    ReturnsToCaller =>
        /\ vm'.frame_count = vm.frame_count - 1
        /\ vm'.stack_top = NextFrame.slots + 1
        /\ vm'.stack[NextFrame.slots] = Peek(0)
        /\ \A slot \in DOMAIN vm.stack : slot < NextFrame.slots => vm'.stack[slot] = vm.stack[slot]
        /\ \A u \in SeqRange(vm'.open_upvalues) : heap'[u].location.slot < NextFrame.slots
        /\ \A i \in 1..vm'.frame_count : vm'.frames[i] = vm.frames[i]

C33_CallThenReturn == [][CallPushesFrame /\ ReturnPopsFrame]_vars

(* A function called with an open upvalue in its frame is about to return. *)
C33_Witness ==
    /\ NextOpIs(OP_RETURN)
    /\ vm.frame_count > 1
    /\ \E u \in SeqRange(vm.open_upvalues) : heap[u].location.slot >= NextFrame.slots

(* A closure is about to be called with an argument. *)
CallWithArgument == NextOpIs(OP_CALL) /\ NextByte(1) > 0 /\ heap[Peek(NextByte(1)).v].type = "OBJECT_CLOSURE"

(***************************************************************************)
(* C34: with an instance as receiver and n arguments above it, OP_INVOKE   *)
(* name n leaves the frames, the stack with the slot of the receiver, the  *)
(* callee that runs and the runtime error as OP_GET_PROPERTY name on the   *)
(* receiver followed, once the arguments are above it, by OP_CALL n; only  *)
(* the BoundMethod is not allocated.  A field shadows a method in both.    *)
(***************************************************************************)
InvokesOnInstance ==
    /\ NextOpIs(OP_INVOKE)
    /\ Peek(NextByte(2)).t = "object"
    /\ heap[Peek(NextByte(2)).v].type = "OBJECT_INSTANCE"

(* The world with the opcode read; the operands are the name and n. *)
OperandsNext == [World(0) EXCEPT !.vm.frames[vm.frame_count].ip = NextFrame.ip + 1]

Fused == op_invoke(OperandsNext)

(* OP_GET_PROPERTY reads the name, with the receiver on top of the stack;  *)
(* OP_CALL reads n, with the arguments back above what the property gave.  *)
PropertyGot ==
    op_get_property([OperandsNext EXCEPT !.vm.stack_top = vm.stack_top - NextByte(2)])

Unfused ==
    IF PropertyGot.ub \/ PropertyGot.ret # "CONTINUE"
    THEN PropertyGot
    ELSE op_call([PropertyGot EXCEPT !.vm.stack_top = PropertyGot.vm.stack_top + NextByte(2)])

(* What the claim compares: the slots in use, the frames, the error. *)
Observed(w) ==
    [ub          |-> w.ub,
     ret         |-> w.ret,
     errs        |-> w.errs,
     out         |-> w.out,
     frame_count |-> w.vm.frame_count,
     frames      |-> SubSeq(w.vm.frames, 1, w.vm.frame_count),
     stack_top   |-> w.vm.stack_top,
     stack       |-> [slot \in {s \in DOMAIN w.vm.stack : s < w.vm.stack_top} |-> w.vm.stack[slot]],
     open        |-> w.vm.open_upvalues,
     globals     |-> w.vm.globals]

BoundMethods(w) == {o \in DOMAIN w.heap : w.heap[o].type = "OBJECT_BOUND_METHOD"}

C34_InvokeIsGetThenCall ==
    InvokesOnInstance =>
        /\ Observed(Fused) = Observed(Unfused)
        /\ BoundMethods(Fused) = BoundMethods(World(0))

(* OP_INVOKE is next for a name that is a field of the receiver and a      *)
(* method of its class.                                                    *)
C34_Witness ==
    /\ InvokesOnInstance
    /\ table_get(World(0), TableFields(Peek(NextByte(2)).v), NextConstant.v).ret.found
    /\ table_get(World(0), TableMethods(heap[Peek(NextByte(2)).v].klass), NextConstant.v).ret.found

(* OP_INVOKE is next for a method, which the unfused form binds. *)
InvokesMethod ==
    /\ InvokesOnInstance
    /\ BoundMethods(Unfused) # BoundMethods(World(0))
    /\ Fused.ret = "CONTINUE"

(* OP_INVOKE is next for a name the receiver does not have. *)
InvokesUndefined == InvokesOnInstance /\ Fused.ret = "INTERPRET_RUNTIME_ERROR"

(***************************************************************************)
(* The Table functions called on their own on vm.globals, with Strings of  *)
(* one letter as keys and the methods of a class as the table              *)
(* table_add_all copies from: pc is "table", runs counts the calls, and    *)
(* compiling holds the map the calls should have built (the pairs of key   *)
(* and value) and what the last call was and returned.                     *)
(***************************************************************************)
(* How many calls are followed. *)
MaxOps == 3

(* How many keys vm.globals has been given before the calls followed. *)
Prefilled == {0, 4, 5}

LetterKeys == {o \in DOMAIN heap : heap[o].type = "OBJECT_STRING" /\ heap[o].length = 1}

TableInit ==
    \E n \in Prefilled :
        \E w \in {TablesBuilt_([vm |-> ZeroVM, heap |-> <<>>, out |-> <<>>, errs |-> <<>>,
                                stress |-> FALSE, gclog |-> <<>>, cc |-> <<>>, cls |-> <<>>,
                                parser |-> ZeroParser, ub |-> FALSE, ret |-> 0, clock |-> 0], n)} :
            /\ vm = w.vm
            /\ heap = w.heap
            /\ out = <<>>
            /\ errs = <<>>
            /\ gclog = <<>>
            /\ pc = "table"
            /\ result = "NONE"
            /\ stress = FALSE
            /\ runs = 0
            /\ session = "table"
            /\ prog = "none"
            /\ compiling = [map   |-> Bindings(w.vm.globals),
                            klass |-> w.ret,
                            last  |-> [op |-> "none", key |-> NULL, ret |-> FALSE]]

(* The map with `pairs` put over it. *)
Override(map, pairs) ==
    {b \in map : \A p \in pairs : p[1] # b[1]} \cup pairs

Called(w, op, key, map) ==
    /\ Commit(w)
    /\ pc' = IF w.ub THEN "undefined" ELSE "table"
    /\ compiling' = [compiling EXCEPT !.map = map,
                                      !.last = [op |-> op, key |-> key, ret |-> w.ret]]
    /\ runs' = runs + 1
    /\ UNCHANGED <<result, stress, session, prog>>

(* table_set(&vm.globals, key, value); the value is the number of the call. *)
TableSet(key) ==
    /\ pc = "table"
    /\ runs < MaxOps
    /\ Called(table_set_(World(0), TABLE_GLOBALS, key, NUMBER_VALUE(runs + 1)), "set", key,
              Override(compiling.map, {<<key, NUMBER_VALUE(runs + 1)>>}))

(* table_del(&vm.globals, key) *)
TableDel(key) ==
    /\ pc = "table"
    /\ runs < MaxOps
    /\ Called(table_del_(World(0), TABLE_GLOBALS, key), "del", key,
              {b \in compiling.map : b[1] # key})

(* table_get(&vm.globals, key, &value) *)
TableGet(key) ==
    /\ pc = "table"
    /\ runs < MaxOps
    /\ Called(table_get_(World(0), TABLE_GLOBALS, key), "get", key, compiling.map)

(* table_add_all(&klass->methods, &vm.globals) *)
TableAddAll ==
    /\ pc = "table"
    /\ runs < MaxOps
    /\ Called(Ret(table_add_all_loop_(World(0), TableMethods(compiling.klass), TABLE_GLOBALS, 0), FALSE),
              "add_all", NULL,
              Override(compiling.map, Bindings(heap[compiling.klass].methods)))

TableNext ==
    \/ \E key \in LetterKeys : TableSet(key)
    \/ \E key \in LetterKeys : TableDel(key)
    \/ \E key \in LetterKeys : TableGet(key)
    \/ TableAddAll

SpecTable == TableInit /\ [][TableNext]_vars

(***************************************************************************)
(* C35: under any sequence of table_set, table_del, table_get and          *)
(* table_add_all, with the growth of the table and the reuse of tombstones *)
(* among them, the Table is a map: table_get(k) succeeds exactly when k    *)
(* was set and not deleted since and yields the value last set; table_set  *)
(* returns true exactly when k was not in the map (and table_del exactly   *)
(* when it was); a call on one key changes no binding of another key.      *)
(***************************************************************************)
Lookup(map, key) ==
    IF \E b \in map : b[1] = key
    THEN [found |-> TRUE, value |-> (CHOOSE b \in map : b[1] = key)[2]]
    ELSE [found |-> FALSE, value |-> NIL_VALUE]

InMap(map, key) == \E b \in map : b[1] = key

(* What table_get(&vm.globals, key, &value) returns and yields. *)
Got(key) == table_get(World(0), TABLE_GLOBALS, key).ret

GetIsLookup == pc = "table" => \A key \in LetterKeys : Got(key) = Lookup(compiling.map, key)

ReturnsTellTheMap ==
    (pc = "table" /\ pc' = "table") =>
        /\ compiling'.last.op = "set" =>
               compiling'.last.ret = ~InMap(compiling.map, compiling'.last.key)
        /\ compiling'.last.op = "del" =>
               compiling'.last.ret = InMap(compiling.map, compiling'.last.key)
        /\ compiling'.last.op = "get" =>
               /\ compiling'.last.ret = Lookup(compiling.map, compiling'.last.key)
               /\ vm' = vm
        /\ compiling'.last.op \in {"set", "del", "get"} =>
               \A key \in LetterKeys \ {compiling'.last.key} : Got(key)' = Got(key)

C35_TableIsAMap == []GetIsLookup /\ [][ReturnsTellTheMap]_vars

Tombstones(table) ==
    {i \in DOMAIN table.entries :
        table.entries[i].key = NULL /\ ~IS_NIL(table.entries[i].value)}

LiveEntries(table) == {i \in DOMAIN table.entries : table.entries[i].key # NULL}

(* The index find_entry starts at for the key of entry i. *)
Home(table, i) == HashMod(heap[table.entries[i].key].hash, table.capacity) + 1

(* vm.globals has grown, a key has been deleted since, and a key lies      *)
(* beyond the slot its hash names.                                         *)
C35_Witness ==
    /\ pc = "table"
    /\ vm.globals.capacity > 8
    /\ Tombstones(vm.globals) # {}
    /\ \E i \in LiveEntries(vm.globals) : Home(vm.globals, i) # i

(* A key has been set into the slot of a tombstone. *)
TombstoneReused ==
    /\ pc = "table"
    /\ compiling.last.op = "set"
    /\ compiling.last.ret
    /\ Cardinality(LiveEntries(vm.globals)) = vm.globals.count
    /\ runs = 2
    /\ vm.globals.capacity = 8
    /\ vm.globals.count = 5

(***************************************************************************)
(* C36: in every table with capacity > 0, count is the number of live      *)
(* entries plus the number of tombstones and 4 * count <= 3 * capacity, so *)
(* one slot at least is empty and no tombstone, where every probe of       *)
(* find_entry and table_find_string ends; a deletion does not decrement    *)
(* count and an insertion into a tombstone does not increment it.          *)
(***************************************************************************)
EmptySlots(table) ==
    {i \in DOMAIN table.entries :
        table.entries[i].key = NULL /\ IS_NIL(table.entries[i].value)}

LoadBounded(table) ==
    table.capacity > 0 =>
        /\ Len(table.entries) = table.capacity
        /\ table.count = Cardinality(LiveEntries(table)) + Cardinality(Tombstones(table))
        /\ 4 * table.count <= 3 * table.capacity
        /\ EmptySlots(table) # {}

TablesOfTheVM ==
    {vm.globals, vm.strings}
        \cup {heap[o].methods : o \in {c \in DOMAIN heap : heap[c].type = "OBJECT_CLASS"}}
        \cup {heap[o].fields : o \in {c \in DOMAIN heap : heap[c].type = "OBJECT_INSTANCE"}}

AllLoadsBounded == pc # "undefined" => \A table \in TablesOfTheVM : LoadBounded(table)

(* The steps that delete a key that is there, and that set a key into the  *)
(* slot a tombstone has.                                                   *)
Deletes ==
    /\ pc = "table"
    /\ compiling'.last.op = "del"
    /\ compiling'.last.ret

SetsIntoTombstone ==
    /\ pc = "table"
    /\ compiling'.last.op = "set"
    /\ compiling'.last.ret
    /\ Cardinality(Tombstones(vm'.globals)) < Cardinality(Tombstones(vm.globals))
    /\ vm'.globals.capacity = vm.globals.capacity

CountKeepsTombstones ==
    /\ Deletes =>
           /\ vm'.globals.count = vm.globals.count
           /\ Cardinality(Tombstones(vm'.globals)) = Cardinality(Tombstones(vm.globals)) + 1
    /\ SetsIntoTombstone => vm'.globals.count = vm.globals.count

C36_LoadFactorKept == []AllLoadsBounded /\ [][CountKeepsTombstones]_vars

(* vm.globals is as full as it may be, with a tombstone among its entries: *)
(* 6 of 8 slots are counted.                                               *)
C36_Witness ==
    /\ pc = "table"
    /\ 4 * (vm.globals.count + 1) > 3 * vm.globals.capacity
    /\ Tombstones(vm.globals) # {}
    /\ vm.globals.capacity > 0

(***************************************************************************)
(* C37: after a compile error in a statement no further error is reported  *)
(* until synchronize(), which resumes at the next statement boundary (past *)
(* the semicolon that ends the statement, or at a keyword that begins a    *)
(* statement): a line with one malformed statement, followed or not by     *)
(* well-formed statements, yields exactly one error report.                *)
(***************************************************************************)
(* The lines of which one statement, the first, is malformed. *)
OneMalformedStatement == {"bad_var", "bad_expr", "bad_then_good"}

CompiledLine == pc = "idle" /\ prog \in OneMalformedStatement

C37_OneReportPerStatement ==
    CompiledLine => (result = "INTERPRET_COMPILE_ERROR" /\ Len(errs) = 1)

(* The line `var 1 = 2; print 3;` has been compiled: tokens of the         *)
(* malformed statement were left before its semicolon when the error was   *)
(* met.                                                                    *)
C37_Witness ==
    /\ pc = "idle"
    /\ prog = "bad_then_good"
    /\ result = "INTERPRET_COMPILE_ERROR"
    /\ errs # <<>>

(* When the error is met at the last token of the statement, one report. *)
ErrorAtEndReportedOnce ==
    (pc = "idle" /\ prog \in {"bad_var", "bad_expr"}) =>
        (result = "INTERPRET_COMPILE_ERROR" /\ Len(errs) = 1)

(* synchronize() leaves the semicolon as the current token. *)
StopsAtSemicolon ==
    /\ C37_Witness
    /\ errs = <<"Expected variable name.", "Expected expression.">>

(***************************************************************************)
(* C38: an `=` is taken as an assignment only directly after a variable    *)
(* name or a property access parsed at a precedence that is at most that   *)
(* of assignment.  After any other left operand, as in `a * b = c` or      *)
(* `a + b.c = 1`, the parser of the operand leaves the `=`: the operand is *)
(* compiled as a read, no store is emitted, and parse_precedence reports   *)
(* 'Invalid assignment target.'.                                           *)
(***************************************************************************)
(* The function of the line: the last function compile() allocated. *)
LineFunction ==
    heap[CHOOSE f \in DOMAIN heap :
            /\ heap[f].type = "OBJECT_FUNCTION"
            /\ \A g \in DOMAIN heap : heap[g].type = "OBJECT_FUNCTION" => g <= f]

LineCode == SubSeq(LineFunction.chunk.code, 1, LineFunction.chunk.count)

Compiled(name) == prog = name /\ pc # "undefined" /\ ~stress

BadTargetReported ==
    /\ result = "INTERPRET_COMPILE_ERROR"
    /\ errs # <<>>
    /\ errs[1] = "Invalid assignment target."

C38_AssignmentTargets ==
    /\ Compiled("bad_assign") =>
           /\ BadTargetReported
           /\ IsPrefix(<<OP_GET_GLOBAL, 0, OP_GET_GLOBAL, 1, OP_MULTIPLY, OP_POP>>, LineCode)
    /\ Compiled("bad_prop_assign") =>
           /\ BadTargetReported
           /\ IsPrefix(<<OP_GET_GLOBAL, 0, OP_GET_GLOBAL, 1, OP_GET_PROPERTY, 2, OP_ADD, OP_POP>>,
                       LineCode)
    /\ Compiled("chain_assign") =>
           /\ result # "INTERPRET_COMPILE_ERROR"
           /\ LineCode = <<OP_GET_GLOBAL, 1, OP_CONSTANT, 3, OP_SET_PROPERTY, 2,
                           OP_SET_GLOBAL, 0, OP_POP, OP_NIL, OP_RETURN>>

(* The line `a * b = c;` has been compiled. *)
C38_Witness == Compiled("bad_assign") /\ pc = "idle" /\ errs # <<>>

(* The line `a = b.c = 1;` has been compiled: both `=` are assignments. *)
ChainCompiled == Compiled("chain_assign") /\ pc = "run"

(* ---------------------------------------------------------------------- *)
(* OP_CLOSURE and the collector.                                           *)
(* ---------------------------------------------------------------------- *)

(* The closures on the value stack of the state that have a NULL upvalue. *)
UnfilledNow ==
    {c \in LiveClosures :
        /\ NULL \in SeqRange(heap[c].upvalues)
        /\ \E slot \in 0..(vm.stack_top - 1) :
              slot \in DOMAIN vm.stack /\ vm.stack[slot] = OBJECT_VALUE(c)}

(* No collection has met, on the value stack, a closure with a NULL        *)
(* upvalue.                                                                *)
NoCollectionMetUnfilled == \A i \in DOMAIN gclog : gclog[i].unfilled = {}

(* C39, as the claim states it: a closure's upvalue array has no NULL     *)
(* entry from the moment the closure can be reached from the value stack:  *)
(* neither a state between two instructions nor a collection, which walks  *)
(* the stack in the middle of an instruction, finds such a closure with a  *)
(* NULL upvalue.                                                           *)
C39_FilledBeforeReachable ==
    pc # "undefined" => UnfilledNow = {} /\ NoCollectionMetUnfilled

(* Between two instructions no closure of the heap has a NULL upvalue. *)
FilledBetweenInstructions ==
    \A c \in LiveClosures : NULL \notin SeqRange(heap[c].upvalues)

(* A collection meets at most one closure with a NULL upvalue on the value *)
(* stack, the one OP_CLOSURE is filling, and marks it.                     *)
OnlyTheOneBeingFilled ==
    \A i \in DOMAIN gclog :
        /\ Cardinality(gclog[i].unfilled) <= 1
        /\ gclog[i].unfilled \subseteq gclog[i].marked
        /\ gclog[i].unfilled \subseteq SeqRange(gclog[i].after)

(* C39, amended: a closure's upvalue array has no NULL entry once the     *)
(* OP_CLOSURE that created it has completed; while that instruction fills  *)
(* the array the closure is already on the value stack, and a collection   *)
(* started by capture_upvalue() meets it with NULL in the entries not yet  *)
(* filled, marks it and keeps it.                                          *)
C39_FilledWhenOpClosureEnds ==
    pc # "undefined" => FilledBetweenInstructions /\ OnlyTheOneBeingFilled

(* A collection met a closure with a NULL upvalue on the value stack, and  *)
(* that closure is now in the heap with every upvalue set.                 *)
C39_Witness ==
    /\ pc = "run"
    /\ \E i \in DOMAIN gclog :
          \E c \in gclog[i].unfilled :
              /\ c \in LiveClosures
              /\ heap[c].upvalue_count > 0
              /\ NULL \notin SeqRange(heap[c].upvalues)

====
